---- MODULE Spec2Model ----
(***************************************************************************)
(* argo-rs: the credential cache (src/core/credentials.rs) and the token   *)
(* lifecycle manager (src/core/token_manager.rs) as a state machine.       *)
(*                                                                         *)
(* Every task of the tokio multi-thread runtime (src/main.rs:20) runs one  *)
(* operation of the CredentialStore / TokenManager API at a time.  An      *)
(* operation is cut into steps at its accesses to shared state: a cache    *)
(* RwLock read or write, a keyring round trip, the refresh mutex, the      *)
(* network call, the clock.  Steps of different tasks interleave freely.   *)
(*                                                                         *)
(* Option<T> is a sequence of length at most one: <<>> is None and <<v>>   *)
(* is Some(v).  A cache, Option<Option<T>>, is <<>> (not yet fetched),     *)
(* << <<>> >> (fetched, no credential) or << <<v>> >> (fetched, cached).   *)
(***************************************************************************)
EXTENDS Integers, Sequences, FiniteSets, TLC

\* ------------------------------------------------------------------ bounds

\* Operations each task starts in one run of the process.
MaxOps == 2
\* Seconds the clock may advance during one run.
MaxNow == 1

\* ------------------------------------------------------- program constants

\* chrono::Duration::minutes(5), in seconds (credentials.rs:224).
BUFFER_SECS == 300
\* Lifetime of a refreshed access token, seconds (auth.rs:63).
ACCESS_TOKEN_LIFETIME == 28800
\* Lifetime of a refreshed refresh token, seconds (auth.rs:64).
REFRESH_TOKEN_LIFETIME == 15811200
\* UNIFIED_CREDENTIALS_VERSION (credentials.rs:37).
UNIFIED_CREDENTIALS_VERSION == 1

\* The tasks the runtime polls, and the value of the refresh lock while
\* no task holds its guard.
Tasks == {1, 2}
NoTask == 0

None == <<>>
Some(v) == <<v>>
IsSome(o) == o # <<>>
Unwrap(o) == o[1]

\* ------------------------------------------------------------------- state

VARIABLES
  env,          \* GITHUB_TOKEN: None (unset), Some(EmptySecret) or Some(value)
  genv,         \* GEMINI_API_KEY, likewise
  now,          \* Utc::now(), seconds
  keyring,      \* the unified keyring entry: None (NoEntry) or Some(creds)
  migrated,     \* MIGRATION_COMPLETED
  dataCache,    \* GITHUB_TOKEN_DATA_CACHE
  tokenCache,   \* GITHUB_TOKEN_CACHE
  geminiCache,  \* GEMINI_KEY_CACHE
  lockHolder,   \* REFRESH_LOCK: the task holding the guard, or NoTask
  lockQueue,    \* tasks waiting in REFRESH_LOCK.lock().await, first come first
  task,         \* per task: the operation it runs, its position and locals
  netCalls,     \* history: DeviceFlowAuth::refresh_token requests sent so far
  faults,       \* history: a keyring round trip has failed
  hist          \* history: per credential the last completed store_/delete_
                \* (td, gk), and the refresh tokens a refresh request failed on

\* The terminal UI (tui/app.rs) and the update checkpoint it shares with its
\* background units (core/update.rs, core/update_checker.rs).
VARIABLES
  app,          \* the fields of App that its handlers read and write
  chan,         \* the bus: AsyncMessages sent and not yet received
  units,        \* the background units dispatched so far, by dispatch order
  loopPc,       \* App::run: where the UI loop stands
  checkpoint,   \* update-state.json: the persisted UpdatePersistentState
  staging,      \* the files of the staging directory
  uilog         \* history: messages sent and applied, frames drawn, and the
                \* blocking operations the UI loop ran itself

tuiVars == <<app, chan, units, loopPc, checkpoint, staging, uilog>>

\* The install location and the process of `argo update install`
\* (cli/update.rs, core/update_checker.rs).
VARIABLES
  install,      \* the running binary's file and its .backup sibling
  cli           \* handle_install: its position, locals and outcomes

updVars == <<install, cli>>

credVars == <<env, genv, now, keyring, migrated, dataCache, tokenCache,
              geminiCache, lockHolder, lockQueue, task, netCalls, faults, hist>>

vars == <<env, genv, now, keyring, migrated, dataCache, tokenCache, geminiCache,
          lockHolder, lockQueue, task, netCalls, faults, hist, tuiVars, updVars>>

\* --------------------------------------------------------- the TUI's values

\* Screen (app.rs:151-161); n is the PR number of PrDetail and 0 otherwise.
Screen(name) == [s |-> name, n |-> 0]
PrDetail(number) == [s |-> "PrDetail", n |-> number]
Dashboard == Screen("Dashboard")

\* The open pull requests of the repository, by number, and the number the
\* server gives to the next one created.
PrNumbers == {1, 2}
CreatedPrNumber == Cardinality(PrNumbers) + 1

\* ListState::new (app.rs:173-175).
ListState(total) == [selected |-> 0, total |-> total]

\* UpdatePersistentState::default (update.rs:37-49).
DefaultCheckpoint ==
  [last_check |-> None, pending_update_path |-> None, pending_version |-> None,
   pending_sha256 |-> None, partial_download |-> FALSE]

\* App::new (app.rs:469-599), with_repository (app.rs:601-604): the fields
\* the handlers below use.  A list of PRs is the sequence of their numbers,
\* a loaded PR its number, a comment the number of its PR, a workflow run
\* its status.
NewApp(repo) ==
  [running |-> TRUE, current_screen |-> Dashboard, navigation_stack |-> <<>>,
   repository |-> repo, error_popup |-> FALSE,
   pr_list |-> <<>>, pr_list_loading |-> FALSE, pr_list_fetched |-> FALSE,
   pr_list_selection |-> ListState(0),
   selected_pr |-> None, pr_detail_loading |-> FALSE,
   pr_comments |-> <<>>, pr_comments_loading |-> FALSE,
   pr_workflow_runs_loading |-> FALSE, pr_workflow_branch |-> None,
   pr_create_loading |-> FALSE, pr_create_submitting |-> FALSE,
   workflow_runs |-> <<>>, workflow_runs_loading |-> FALSE,
   workflow_runs_fetched |-> FALSE, tick_counter |-> 0,
   workflow_runs_last_poll_tick |-> 0,
   tags_loading |-> FALSE, tags_fetched |-> FALSE,
   commit_push_prompt |-> FALSE, commit_push_loading |-> FALSE,
   commit_tag_prompt |-> FALSE, tag_create_mode |-> FALSE,
   merge_dialog_open |-> FALSE, merge_in_progress |-> FALSE,
   update_state |-> "Idle", update_available_version |-> None,
   update_check_triggered |-> FALSE]

\* The TUI as App::run finds it: nothing dispatched, the bus empty, the loop
\* about to draw its first frame (app.rs:628-637).
InitTui(repo, cp) ==
  /\ app = NewApp(repo)
  /\ chan = <<>>
  /\ units = <<>>
  /\ loopPc = "draw"
  /\ checkpoint = cp
  /\ uilog = [dispatched |-> 0, sent |-> 0, applied |-> 0, in_order |-> TRUE,
              finished |-> {}, io |-> {}, since_poll |-> 0]


\* ------------------------------------------------------------ token values

\* SecretString values.  The empty refresh token is String::new().
Secret(kind, n) == [k |-> kind, n |-> n]
EmptySecret == Secret("empty", 0)
is_empty(s) == s.k = "empty"

\* OAuthTokenData (auth.rs:88-101); token_type and scope take no part in any
\* decision and are left out.
OAuthTokenData(a, r, e, re) ==
  [access_token |-> a, refresh_token |-> r, expires_at |-> e,
   refresh_token_expires_at |-> re]

\* DateTime::to_rfc3339 and DateTime::parse_from_rfc3339: the stored form of
\* a timestamp is a tagged string, and parsing accepts only that form.
to_rfc3339(ts) == <<"rfc3339", ts>>
parse_ok(s) == Len(s) = 2 /\ s[1] = "rfc3339"
parse_from_rfc3339(s) == s[2]

\* OAuthTokenData::to_stored (auth.rs:127-137).
to_stored(td) ==
  [access_token |-> td.access_token, refresh_token |-> td.refresh_token,
   expires_at |-> to_rfc3339(td.expires_at),
   refresh_token_expires_at |-> to_rfc3339(td.refresh_token_expires_at),
   version |-> 1]

\* OAuthTokenData::from_stored (auth.rs:140-160): Ok(data) or Err(Config).
from_stored_ok(st) ==
  parse_ok(st.expires_at) /\ parse_ok(st.refresh_token_expires_at)
from_stored(st) ==
  OAuthTokenData(st.access_token, st.refresh_token,
                 parse_from_rfc3339(st.expires_at),
                 parse_from_rfc3339(st.refresh_token_expires_at))

\* UnifiedCredentials (credentials.rs:63-72).
UnifiedCredentials(td, gk) ==
  [version |-> UNIFIED_CREDENTIALS_VERSION, github_token_data |-> td,
   gemini_api_key |-> gk]
DefaultCredentials == UnifiedCredentials(None, None)

\* The expiry test without its buffer.
is_token_expired_no_buffer(td) == now > td.expires_at

\* CredentialStore::is_token_expired (credentials.rs:223-226).
is_token_expired(td) == now + BUFFER_SECS > td.expires_at

\* CredentialStore::is_refresh_token_expired (credentials.rs:229-231).
is_refresh_token_expired(td) == now > td.refresh_token_expires_at

\* A manager that never looks at GITHUB_TOKEN.
EnvOverrideIgnored == FALSE

\* The GITHUB_TOKEN test of get_valid_token, is_authenticated and
\* get_github_token: set and not empty (token_manager.rs:52-56).
EnvOverride == IsSome(env) /\ ~is_empty(Unwrap(env))

\* The GEMINI_API_KEY test of get_gemini_key (credentials.rs:286-290).
GeminiEnvOverride == IsSome(genv) /\ ~is_empty(Unwrap(genv))

\* -------------------------------------------------------------- task state

Ok(v) == [kind |-> "Ok", val |-> v]
Err(e) == [kind |-> "Err", val |-> e]
NoResult == [kind |-> "none", val |-> None]

\* A task: the operation it runs (op), its position (pc) and call stack
\* (stk), its locals (got, creds, arg, ret), the result of its last operation
\* (res), the operations it has started (n) and, as history of the current
\* operation, the refresh requests it sent (att) and whether it entered
\* refresh_and_get_token (rf).
IdleTask ==
  [op |-> "none", pc |-> "idle", stk |-> <<>>, got |-> None,
   creds |-> None, arg |-> None, ret |-> NoResult, res |-> NoResult,
   att |-> 0, rf |-> FALSE, n |-> 0]

\* Frames whose caller discards the callee's error (`let _ = ...`,
\* token_manager.rs:102, 109, 123); every other call site propagates it with `?`.
IgnoresError == {"rf_expired", "rf_failed"}

\* The frames left after an error unwinds through `?`.
RECURSIVE Unwind(_)
Unwind(s) ==
  IF s = <<>> \/ Head(s) \in IgnoresError THEN s ELSE Unwind(Tail(s))

\* A guard that outlives the call: the lock stays with its holder.
ReleaseLeaks(t) == lockHolder

\* Dropping the MutexGuard `_lock` when refresh_and_get_token returns
\* (token_manager.rs:90, 131).
Release(t) == IF lockHolder = t THEN NoTask ELSE lockHolder

\* The operation of task t returns r to its caller.
Finish(t, r) ==
  /\ task' = [task EXCEPT ![t] =
       [IdleTask EXCEPT !.op = task[t].op, !.res = r, !.att = task[t].att,
                        !.rf = task[t].rf, !.n = task[t].n]]
  /\ lockHolder' = Release(t)

\* A callee of task t returns r: to the frame on top of the stack, or, when
\* r is an error and the frame propagates it, further up.
Return(t, r) ==
  LET s == IF r.kind = "Err" THEN Unwind(task[t].stk) ELSE task[t].stk IN
  IF s = <<>>
    THEN Finish(t, r)
    ELSE /\ task' = [task EXCEPT ![t].pc = Head(s), ![t].stk = Tail(s),
                                 ![t].ret = r, ![t].got = None,
                                 ![t].creds = None]
         /\ UNCHANGED lockHolder

\* Task t calls a callee entered at `entry`, to continue at `cont`.
Call(t, entry, cont) ==
  task' = [task EXCEPT ![t].pc = entry, ![t].stk = <<cont>> \o task[t].stk,
                       ![t].ret = NoResult]

At(t, label) == task[t].pc = label

\* ------------------------------------------------------------ the keyring

\* One keyring round trip, preceded by migrate_to_unified_if_needed
\* (credentials.rs:413-423).  No legacy entry exists, so the migration is
\* its own load of the unified entry and the flag; either load may fail.
LoadOutcomes == IF migrated THEN {"ok", "load_err"}
                            ELSE {"ok", "migrate_err", "load_err"}
AfterLoad(o) ==
  /\ migrated' = IF o = "migrate_err" THEN migrated ELSE TRUE
  /\ faults' = (faults \/ o # "ok")

\* load_unified_credentials, then the github_token_data field through
\* from_stored (credentials.rs:201-210): Ok(Option<OAuthTokenData>) or Err.
LoadedTokenData ==
  IF keyring = None \/ ~IsSome(Unwrap(keyring).github_token_data)
    THEN Ok(None)
    ELSE LET st == Unwrap(Unwrap(keyring).github_token_data) IN
         IF from_stored_ok(st) THEN Ok(Some(from_stored(st))) ELSE Err("Config")

\* fetch_github_token_from_unified (credentials.rs:126-139).
fetch_github_token_from_unified ==
  IF keyring = None \/ ~IsSome(Unwrap(keyring).github_token_data)
    THEN None
    ELSE Some(Unwrap(Unwrap(keyring).github_token_data).access_token)

\* fetch_gemini_key_from_unified (credentials.rs:311-324).
fetch_gemini_key_from_unified ==
  IF keyring = None THEN None ELSE Unwrap(keyring).gemini_api_key

\* The closure a caller hands to update_unified_credentials
\* (credentials.rs:171-173, 238-240, 269-271, 331-333), named by the frame
\* the call returns to.
Updater(frame, creds, arg) ==
  CASE frame = "st_saved" ->
         [creds EXCEPT !.github_token_data = Some(to_stored(Unwrap(arg)))]
    [] frame = "dl_saved" -> [creds EXCEPT !.github_token_data = None]
    [] frame = "sg_saved" -> [creds EXCEPT !.gemini_api_key = arg]
    [] frame = "dg_saved" -> [creds EXCEPT !.gemini_api_key = None]

\* -------------------------------------------- CredentialStore, step by step

\* get_github_token_data: the cache read (credentials.rs:191-195).
GdCache(t) ==
  /\ At(t, "gd_cache")
  /\ IF IsSome(dataCache)
       THEN Return(t, Ok(Unwrap(dataCache)))
       ELSE /\ task' = [task EXCEPT ![t].pc = "gd_load"]
            /\ UNCHANGED lockHolder
  /\ UNCHANGED <<env, genv, now, keyring, migrated, dataCache, tokenCache,
                 geminiCache, lockQueue, netCalls, faults, hist, tuiVars, updVars>>

\* get_github_token_data: the read-through (credentials.rs:198-210).
GdLoad(t) ==
  /\ At(t, "gd_load")
  /\ \E o \in LoadOutcomes :
       /\ AfterLoad(o)
       /\ IF o = "ok" /\ LoadedTokenData.kind = "Ok"
            THEN /\ task' = [task EXCEPT ![t].pc = "gd_write",
                                         ![t].got = LoadedTokenData.val]
                 /\ UNCHANGED lockHolder
            ELSE Return(t, IF o = "ok" THEN LoadedTokenData ELSE Err("Credential"))
  /\ UNCHANGED <<env, genv, now, keyring, dataCache, tokenCache, geminiCache,
                 lockQueue, netCalls, hist, tuiVars, updVars>>

\* What the read-through writes into the cache (credentials.rs:213-215): the
\* value it loaded, whatever the cache holds by now.
ReadThrough(cache, loaded) == Some(loaded)

\* get_github_token_data: the cache update and the return (credentials.rs:213-217).
GdWrite(t) ==
  /\ At(t, "gd_write")
  /\ dataCache' = ReadThrough(dataCache, task[t].got)
  /\ Return(t, Ok(task[t].got))
  /\ UNCHANGED <<env, genv, now, keyring, migrated, tokenCache, geminiCache,
                 lockQueue, netCalls, faults, hist, tuiVars, updVars>>

\* get_github_token: the override and the cache read (credentials.rs:101-112).
GtCache(t) ==
  /\ At(t, "gt_cache")
  /\ IF EnvOverride THEN Return(t, Ok(env))
     ELSE IF IsSome(tokenCache) THEN Return(t, Ok(Unwrap(tokenCache)))
     ELSE /\ task' = [task EXCEPT ![t].pc = "gt_load"]
          /\ UNCHANGED lockHolder
  /\ UNCHANGED <<env, genv, now, keyring, migrated, dataCache, tokenCache,
                 geminiCache, lockQueue, netCalls, faults, hist, tuiVars, updVars>>

\* get_github_token: the read-through (credentials.rs:115).
GtLoad(t) ==
  /\ At(t, "gt_load")
  /\ \E o \in LoadOutcomes :
       /\ AfterLoad(o)
       /\ IF o = "ok"
            THEN /\ task' = [task EXCEPT ![t].pc = "gt_write",
                                         ![t].got = fetch_github_token_from_unified]
                 /\ UNCHANGED lockHolder
            ELSE Return(t, Err("Credential"))
  /\ UNCHANGED <<env, genv, now, keyring, dataCache, tokenCache, geminiCache,
                 lockQueue, netCalls, hist, tuiVars, updVars>>

\* get_github_token: the cache update and the return (credentials.rs:118-122).
GtWrite(t) ==
  /\ At(t, "gt_write")
  /\ tokenCache' = ReadThrough(tokenCache, task[t].got)
  /\ Return(t, Ok(task[t].got))
  /\ UNCHANGED <<env, genv, now, keyring, migrated, dataCache, geminiCache,
                 lockQueue, netCalls, faults, hist, tuiVars, updVars>>

\* get_gemini_key: the override and the cache read (credentials.rs:286-297).
GkCache(t) ==
  /\ At(t, "gk_cache")
  /\ IF GeminiEnvOverride THEN Return(t, Ok(genv))
     ELSE IF IsSome(geminiCache) THEN Return(t, Ok(Unwrap(geminiCache)))
     ELSE /\ task' = [task EXCEPT ![t].pc = "gk_load"]
          /\ UNCHANGED lockHolder
  /\ UNCHANGED <<env, genv, now, keyring, migrated, dataCache, tokenCache,
                 geminiCache, lockQueue, netCalls, faults, hist, tuiVars, updVars>>

\* get_gemini_key: the read-through (credentials.rs:300).
GkLoad(t) ==
  /\ At(t, "gk_load")
  /\ \E o \in LoadOutcomes :
       /\ AfterLoad(o)
       /\ IF o = "ok"
            THEN /\ task' = [task EXCEPT ![t].pc = "gk_write",
                                         ![t].got = fetch_gemini_key_from_unified]
                 /\ UNCHANGED lockHolder
            ELSE Return(t, Err("Credential"))
  /\ UNCHANGED <<env, genv, now, keyring, dataCache, tokenCache, geminiCache,
                 lockQueue, netCalls, hist, tuiVars, updVars>>

\* get_gemini_key: the cache update and the return (credentials.rs:303-307).
GkWrite(t) ==
  /\ At(t, "gk_write")
  /\ geminiCache' = ReadThrough(geminiCache, task[t].got)
  /\ Return(t, Ok(task[t].got))
  /\ UNCHANGED <<env, genv, now, keyring, migrated, dataCache, tokenCache,
                 lockQueue, netCalls, faults, hist, tuiVars, updVars>>

\* update_unified_credentials: migrate and load (credentials.rs:476-482).
UuLoad(t) ==
  /\ At(t, "uu_load")
  /\ \E o \in LoadOutcomes :
       /\ AfterLoad(o)
       /\ IF o = "ok"
            THEN /\ task' = [task EXCEPT ![t].pc = "uu_save",
                       ![t].creds = IF keyring = None THEN Some(DefaultCredentials)
                                                      ELSE keyring]
                 /\ UNCHANGED lockHolder
            ELSE Return(t, Err("Credential"))
  /\ UNCHANGED <<env, genv, now, keyring, dataCache, tokenCache, geminiCache,
                 lockQueue, netCalls, hist, tuiVars, updVars>>

\* A save whose failure is not propagated: the caller goes on as after Ok.
UuSaveIgnoresFailure(t) ==
  /\ At(t, "uu_save")
  /\ \E ok \in BOOLEAN :
       /\ faults' = (faults \/ ~ok)
       /\ keyring' = IF ok
                       THEN Some(Updater(Head(task[t].stk),
                                         Unwrap(task[t].creds), task[t].arg))
                       ELSE keyring
       /\ Return(t, Ok(None))
  /\ UNCHANGED <<env, genv, now, migrated, dataCache, tokenCache, geminiCache,
                 lockQueue, netCalls, hist, tuiVars, updVars>>

\* update_unified_credentials: apply the closure and save
\* (credentials.rs:484-485, 395-401).
UuSave(t) ==
  /\ At(t, "uu_save")
  /\ \E ok \in BOOLEAN :
       /\ faults' = (faults \/ ~ok)
       /\ IF ok
            THEN /\ keyring' = Some(Updater(Head(task[t].stk),
                                            Unwrap(task[t].creds), task[t].arg))
                 /\ Return(t, Ok(None))
            ELSE /\ UNCHANGED keyring
                 /\ Return(t, Err("Credential"))
  /\ UNCHANGED <<env, genv, now, migrated, dataCache, tokenCache, geminiCache,
                 lockQueue, netCalls, hist, tuiVars, updVars>>

\* store_github_token_data: the first cache update (credentials.rs:176-178).
StSaved(t) ==
  /\ At(t, "st_saved")
  /\ dataCache' = Some(task[t].arg)
  /\ task' = [task EXCEPT ![t].pc = "st_tok"]
  /\ UNCHANGED <<env, genv, now, keyring, migrated, tokenCache, geminiCache,
                 lockHolder, lockQueue, netCalls, faults, hist, tuiVars, updVars>>

\* store_github_token_data: the second cache update and the return
\* (credentials.rs:179-183).
StTok(t) ==
  /\ At(t, "st_tok")
  /\ tokenCache' = Some(Some(Unwrap(task[t].arg).access_token))
  /\ hist' = [hist EXCEPT !.td = Some(task[t].arg)]
  /\ Return(t, Ok(None))
  /\ UNCHANGED <<env, genv, now, keyring, migrated, dataCache, geminiCache,
                 lockQueue, netCalls, faults, tuiVars, updVars>>

\* delete_github_token_data: the first cache update (credentials.rs:243-245).
DlSaved(t) ==
  /\ At(t, "dl_saved")
  /\ dataCache' = Some(None)
  /\ task' = [task EXCEPT ![t].pc = "dl_tok"]
  /\ UNCHANGED <<env, genv, now, keyring, migrated, tokenCache, geminiCache,
                 lockHolder, lockQueue, netCalls, faults, hist, tuiVars, updVars>>

\* delete_github_token_data: the second cache update and the return
\* (credentials.rs:246-250).
DlTok(t) ==
  /\ At(t, "dl_tok")
  /\ tokenCache' = Some(None)
  /\ hist' = [hist EXCEPT !.td = Some(None)]
  /\ Return(t, Ok(None))
  /\ UNCHANGED <<env, genv, now, keyring, migrated, dataCache, geminiCache,
                 lockQueue, netCalls, faults, tuiVars, updVars>>

\* store_gemini_key: the cache update and the return (credentials.rs:274-278).
SgSaved(t) ==
  /\ At(t, "sg_saved")
  /\ geminiCache' = Some(task[t].arg)
  /\ hist' = [hist EXCEPT !.gk = Some(task[t].arg)]
  /\ Return(t, Ok(None))
  /\ UNCHANGED <<env, genv, now, keyring, migrated, dataCache, tokenCache,
                 lockQueue, netCalls, faults, tuiVars, updVars>>

\* delete_gemini_key: the cache update and the return (credentials.rs:336-340).
DgSaved(t) ==
  /\ At(t, "dg_saved")
  /\ geminiCache' = Some(None)
  /\ hist' = [hist EXCEPT !.gk = Some(None)]
  /\ Return(t, Ok(None))
  /\ UNCHANGED <<env, genv, now, keyring, migrated, dataCache, tokenCache,
                 lockQueue, netCalls, faults, tuiVars, updVars>>

\* -------------------------------------------------- TokenManager, step by step

\* A callee's Ok value, at the frame it returned to.
Got(t) == task[t].ret.val

\* Calls of store_github_token_data(v) and delete_github_token_data(), which
\* begin in update_unified_credentials (credentials.rs:171, 238).
CallStore(t, v, cont) ==
  task' = [task EXCEPT ![t].pc = "uu_load", ![t].arg = Some(v),
                       ![t].got = None, ![t].ret = NoResult,
                       ![t].stk = <<"st_saved", cont>> \o task[t].stk]
CallDelete(t, cont) ==
  task' = [task EXCEPT ![t].pc = "uu_load",
                       ![t].got = None, ![t].ret = NoResult,
                       ![t].stk = <<"dl_saved", cont>> \o task[t].stk]

\* get_valid_token, priority 1 (token_manager.rs:52-59).
GvtEnv(t) ==
  /\ At(t, "gvt_env")
  /\ IF EnvOverride
       THEN Finish(t, Ok(Unwrap(env)))
       ELSE Call(t, "gd_cache", "gvt_td") /\ UNCHANGED lockHolder
  /\ UNCHANGED <<env, genv, now, keyring, migrated, dataCache, tokenCache,
                 geminiCache, lockQueue, netCalls, faults, hist, tuiVars, updVars>>

\* get_valid_token, priority 2 (token_manager.rs:59-70).
GvtTd(t) ==
  /\ At(t, "gvt_td")
  /\ IF IsSome(Got(t))
       THEN IF ~is_token_expired(Unwrap(Got(t)))
              THEN Finish(t, Ok(Unwrap(Got(t)).access_token))
              ELSE /\ task' = [task EXCEPT ![t].pc = "rf_lock",
                                           ![t].ret = NoResult]
                   /\ UNCHANGED lockHolder
       ELSE Call(t, "gt_cache", "gvt_legacy") /\ UNCHANGED lockHolder
  /\ UNCHANGED <<env, genv, now, keyring, migrated, dataCache, tokenCache,
                 geminiCache, lockQueue, netCalls, faults, hist, tuiVars, updVars>>

\* get_valid_token, priority 3 (token_manager.rs:70-76).
GvtLegacy(t) ==
  /\ At(t, "gvt_legacy")
  /\ Finish(t, IF IsSome(Got(t)) THEN Ok(Unwrap(Got(t)))
                                 ELSE Err("NotAuthenticated"))
  /\ UNCHANGED <<env, genv, now, keyring, migrated, dataCache, tokenCache,
                 geminiCache, lockQueue, netCalls, faults, hist, tuiVars, updVars>>

\* refresh_and_get_token: REFRESH_LOCK.lock() joins the mutex's queue
\* (token_manager.rs:90).
RfLock(t) ==
  /\ At(t, "rf_lock")
  /\ lockQueue' = Append(lockQueue, t)
  /\ task' = [task EXCEPT ![t].pc = "rf_wait", ![t].rf = TRUE]
  /\ UNCHANGED <<env, genv, now, keyring, migrated, dataCache, tokenCache,
                 geminiCache, lockHolder, netCalls, faults, hist, tuiVars, updVars>>

\* A refresh path without its mutex.
LockAlwaysAvailable == TRUE

\* The mutex is granted only while no guard is alive.
LockAvailable == lockHolder = NoTask

\* refresh_and_get_token: the lock is granted, first come first served, and
\* the stored token data is read again (token_manager.rs:90-93).
RfAcquire(t) ==
  /\ At(t, "rf_wait")
  /\ LockAvailable
  /\ Head(lockQueue) = t
  /\ lockQueue' = Tail(lockQueue)
  /\ lockHolder' = t
  /\ Call(t, "gd_cache", "rf_td")
  /\ UNCHANGED <<env, genv, now, keyring, migrated, dataCache, tokenCache,
                 geminiCache, netCalls, faults, hist, tuiVars, updVars>>

\* refresh_and_get_token: the decision under the lock, up to sending the
\* refresh request (token_manager.rs:93-115, 127-130).
RfTd(t) ==
  /\ At(t, "rf_td")
  /\ IF ~IsSome(Got(t))
       THEN Finish(t, Err("NotAuthenticated")) /\ UNCHANGED netCalls
     ELSE IF ~is_token_expired(Unwrap(Got(t)))
       THEN Finish(t, Ok(Unwrap(Got(t)).access_token)) /\ UNCHANGED netCalls
     ELSE IF is_refresh_token_expired(Unwrap(Got(t)))
               \/ is_empty(Unwrap(Got(t)).refresh_token)
       THEN CallDelete(t, "rf_expired") /\ UNCHANGED <<lockHolder, netCalls>>
     ELSE /\ netCalls' = netCalls + 1
          /\ task' = [task EXCEPT ![t].pc = "rf_resp", ![t].att = @ + 1,
                                  ![t].got = Some(netCalls + 1),
                                  ![t].arg = Got(t), ![t].ret = NoResult]
          /\ UNCHANGED lockHolder
  /\ UNCHANGED <<env, genv, now, keyring, migrated, dataCache, tokenCache,
                 geminiCache, lockQueue, faults, hist, tuiVars, updVars>>

\* DeviceFlowAuth::refresh_token, a successful response (auth.rs:360-376):
\* the k-th request's new token data.
RefreshedTokenData(k) ==
  OAuthTokenData(Secret("new", k), Secret("newr", k),
                 now + ACCESS_TOKEN_LIFETIME, now + REFRESH_TOKEN_LIFETIME)

\* refresh_and_get_token: the response to the refresh request
\* (token_manager.rs:115-125).
RfResp(t) ==
  /\ At(t, "rf_resp")
  /\ \E success \in BOOLEAN :
       IF success
         THEN /\ CallStore(t, RefreshedTokenData(Unwrap(task[t].got)), "rf_stored")
              /\ UNCHANGED hist
         ELSE /\ CallDelete(t, "rf_failed")
              /\ hist' = [hist EXCEPT !.doomed =
                           @ \cup {Unwrap(task[t].arg).refresh_token}]
  /\ UNCHANGED <<env, genv, now, keyring, migrated, dataCache, tokenCache,
                 geminiCache, lockHolder, lockQueue, netCalls, faults,
                 tuiVars, updVars>>

\* refresh_and_get_token: the exits after the store and the deletes
\* (token_manager.rs:103, 110, 119, 124).
RfStored(t) ==
  /\ At(t, "rf_stored")
  /\ Finish(t, Ok(Unwrap(task[t].arg).access_token))
  /\ UNCHANGED <<env, genv, now, keyring, migrated, dataCache, tokenCache,
                 geminiCache, lockQueue, netCalls, faults, hist, tuiVars, updVars>>
RfExpired(t) ==
  /\ At(t, "rf_expired")
  /\ Finish(t, Err("TokenRefreshExpired"))
  /\ UNCHANGED <<env, genv, now, keyring, migrated, dataCache, tokenCache,
                 geminiCache, lockQueue, netCalls, faults, hist, tuiVars, updVars>>
RfFailed(t) ==
  /\ At(t, "rf_failed")
  /\ Finish(t, Err("TokenRefreshFailed"))
  /\ UNCHANGED <<env, genv, now, keyring, migrated, dataCache, tokenCache,
                 geminiCache, lockQueue, netCalls, faults, hist, tuiVars, updVars>>

\* is_authenticated (token_manager.rs:139-154).
IaEnv(t) ==
  /\ At(t, "ia_env")
  /\ IF EnvOverride
       THEN Finish(t, Ok(TRUE))
       ELSE Call(t, "gd_cache", "ia_td") /\ UNCHANGED lockHolder
  /\ UNCHANGED <<env, genv, now, keyring, migrated, dataCache, tokenCache,
                 geminiCache, lockQueue, netCalls, faults, hist, tuiVars, updVars>>
IaTd(t) ==
  /\ At(t, "ia_td")
  /\ IF IsSome(Got(t))
       THEN Finish(t, Ok(TRUE))
       ELSE Call(t, "gt_cache", "ia_tok") /\ UNCHANGED lockHolder
  /\ UNCHANGED <<env, genv, now, keyring, migrated, dataCache, tokenCache,
                 geminiCache, lockQueue, netCalls, faults, hist, tuiVars, updVars>>
IaTok(t) ==
  /\ At(t, "ia_tok")
  /\ Finish(t, Ok(IsSome(Got(t))))
  /\ UNCHANGED <<env, genv, now, keyring, migrated, dataCache, tokenCache,
                 geminiCache, lockQueue, netCalls, faults, hist, tuiVars, updVars>>

\* ------------------------------------------------------------- the callers

\* Where each operation begins, and the frame its first callee returns to.
Entry(op) ==
  CASE op = "get_valid_token" -> <<"gvt_env", <<>> >>
    [] op = "force_refresh" -> <<"rf_lock", <<>> >>
    [] op = "is_authenticated" -> <<"ia_env", <<>> >>
    [] op = "get_github_token_data" -> <<"gd_cache", <<>> >>
    [] op = "get_github_token" -> <<"gt_cache", <<>> >>
    [] op = "get_gemini_key" -> <<"gk_cache", <<>> >>
    [] op = "store_github_token_data" -> <<"uu_load", <<"st_saved">> >>
    [] op = "delete_github_token_data" -> <<"uu_load", <<"dl_saved">> >>
    [] op = "store_gemini_key" -> <<"uu_load", <<"sg_saved">> >>
    [] op = "delete_gemini_key" -> <<"uu_load", <<"dg_saved">> >>

\* What `gr auth login` stores (cli/auth.rs:72, 142): the token data
\* poll_for_token built, with a refresh token (auth.rs:282-291) or without
\* (auth.rs:296-305).
LoginTokenData(t) ==
  { OAuthTokenData(Secret("login", t), Secret("loginr", t),
                   now + ACCESS_TOKEN_LIFETIME, now + REFRESH_TOKEN_LIFETIME),
    OAuthTokenData(Secret("login", t), EmptySecret,
                   now + ACCESS_TOKEN_LIFETIME, now) }

\* The arguments an operation may be called with.
Args(t, op) ==
  CASE op = "store_github_token_data" -> {Some(td) : td \in LoginTokenData(t)}
    [] op = "store_gemini_key" -> {Some(Secret("key", t))}
    [] OTHER -> {None}

\* Task t calls operation op.
Start(t, op) ==
  /\ At(t, "idle")
  /\ task[t].n < MaxOps
  /\ \E a \in Args(t, op) :
       task' = [task EXCEPT ![t] =
         [IdleTask EXCEPT !.op = op, !.pc = Entry(op)[1], !.stk = Entry(op)[2],
                          !.arg = a, !.n = task[t].n + 1]]
  /\ UNCHANGED <<env, genv, now, keyring, migrated, dataCache, tokenCache,
                 geminiCache, lockHolder, lockQueue, netCalls, faults, hist,
                 tuiVars, updVars>>

\* Time passes.
Tick ==
  /\ now < MaxNow
  /\ now' = now + 1
  /\ UNCHANGED <<env, genv, keyring, migrated, dataCache, tokenCache,
                 geminiCache, lockHolder, lockQueue, task, netCalls, faults,
                 hist, tuiVars, updVars>>

\* ---------------------------------------------------------- initial states

\* Token data a previous run left in the keyring, by its access expiry
\* (seconds from the start of this run) and its refresh credential.
StoredExpiries == {BUFFER_SECS - 1, BUFFER_SECS, BUFFER_SECS + 1}
InitTokenData ==
  { OAuthTokenData(Secret("init", 0), Secret("initr", 0), e,
                   REFRESH_TOKEN_LIFETIME) : e \in StoredExpiries }
  \cup { OAuthTokenData(Secret("init", 0), EmptySecret, BUFFER_SECS - 1, -1),
         OAuthTokenData(Secret("init", 0), Secret("initr", 0),
                        BUFFER_SECS - 1, -1) }

InitKeyring ==
  {None, Some(UnifiedCredentials(None, Some(Secret("key", 0))))}
  \cup { Some(UnifiedCredentials(Some(to_stored(td)), None)) : td \in InitTokenData }

InitEnv == {None, Some(EmptySecret), Some(Secret("env", 0))}

\* A fresh process: nothing cached, no migration done, the lock free.
InitCredentials ==
  /\ now = 0
  /\ migrated = FALSE
  /\ dataCache = None
  /\ tokenCache = None
  /\ geminiCache = None
  /\ lockHolder = NoTask
  /\ lockQueue = <<>>
  /\ task = [t \in Tasks |-> IdleTask]
  /\ netCalls = 0
  /\ faults = FALSE
  /\ hist = [td |-> None, gk |-> None, doomed |-> {}]

\* The process of `argo update install` before it is started: its position
\* (pc), which call of apply_pending_update it is in (call), the checkpoint
\* copies its functions loaded (st in apply_pending_update, hst in
\* handle_install), its --force flag, the error of the self-test in the
\* install location (verr), the outcome of its last
\* apply_pending_update (res) and of handle_install (ret) and, as history,
\* the launches and crashes so far, the outcomes of all calls of
\* apply_pending_update (log) and whether a restore of the backup failed in
\* this launch (critical) and the binary the launch found installed (pre).
IdleCli ==
  [pc |-> "off", call |-> 0, st |-> DefaultCheckpoint,
   hst |-> DefaultCheckpoint, force |-> FALSE, verr |-> None,
   res |-> NoResult,
   ret |-> NoResult, launches |-> 0, crashes |-> 0, log |-> <<>>,
   critical |-> FALSE, pre |-> "old"]

\* The files as a launch finds them: the staging directory with the file at
\* the final path (none, or a downloaded binary that passed its self-test),
\* the installed binary, which runs (tested), and no backup beside it.  A
\* backup is a copy of a binary with what was known of it.
InitInstall(final) ==
  /\ staging = [partial |-> FALSE, final |-> final]
  /\ install = [binary |-> "old", tested |-> TRUE, backup |-> None]
  /\ cli = IdleCli

InitProcess ==
  InitCredentials /\ InitTui(TRUE, DefaultCheckpoint) /\ InitInstall("none")

\* ------------------------------------------------ the token manager's runs

TokenOps == {"get_valid_token", "force_refresh", "is_authenticated"}

Init ==
  /\ env \in InitEnv
  /\ genv = None
  /\ keyring \in InitKeyring
  /\ InitProcess

StepCache(t) ==
  \/ GdCache(t) \/ GdLoad(t) \/ GdWrite(t)
  \/ GtCache(t) \/ GtLoad(t) \/ GtWrite(t)
  \/ UuLoad(t) \/ UuSave(t)
  \/ StSaved(t) \/ StTok(t) \/ DlSaved(t) \/ DlTok(t)

StepToken(t) ==
  \/ GvtEnv(t) \/ GvtTd(t) \/ GvtLegacy(t)
  \/ RfLock(t) \/ RfAcquire(t) \/ RfTd(t) \/ RfResp(t)
  \/ RfStored(t) \/ RfExpired(t) \/ RfFailed(t)
  \/ IaEnv(t) \/ IaTd(t) \/ IaTok(t)

Next ==
  \/ \E t \in Tasks : \E op \in TokenOps : Start(t, op)
  \/ \E t \in Tasks : StepCache(t)
  \/ \E t \in Tasks : StepToken(t)
  \/ Tick

Spec == Init /\ [][Next]_vars

\* The token manager beside direct callers of the credential store
\* (has_github_token at start-up, tui/app.rs:473; login, cli/auth.rs:72;
\* logout, cli/auth.rs:194), with no override variable set.
MixedOps ==
  TokenOps \cup {"get_github_token", "store_github_token_data",
                 "delete_github_token_data"}

InitMixed ==
  /\ env = None
  /\ genv = None
  /\ keyring \in InitKeyring
  /\ InitProcess

NextMixed ==
  \/ \E t \in Tasks : \E op \in MixedOps : Start(t, op)
  \/ \E t \in Tasks : StepCache(t)
  \/ \E t \in Tasks : StepToken(t)
  \/ Tick

SpecMixed == InitMixed /\ [][NextMixed]_vars

\* --------------------------------------------- the credential store's runs

CacheOps ==
  {"get_github_token_data", "get_github_token", "get_gemini_key",
   "store_github_token_data", "delete_github_token_data",
   "store_gemini_key", "delete_gemini_key"}

StepGemini(t) ==
  \/ GkCache(t) \/ GkLoad(t) \/ GkWrite(t)
  \/ SgSaved(t) \/ DgSaved(t)

InitGeminiEnv == {None, Some(EmptySecret), Some(Secret("genv", 0))}

\* The store's operations read no clock and no expiry: one stored token data
\* stands for all, and time stands still.
InitCacheKeyring ==
  {None, Some(UnifiedCredentials(None, Some(Secret("key", 0)))),
   Some(UnifiedCredentials(
          Some(to_stored(OAuthTokenData(Secret("init", 0), Secret("initr", 0),
                                        BUFFER_SECS + 1, REFRESH_TOKEN_LIFETIME))),
          None))}

InitCache ==
  /\ env = None
  /\ genv \in InitGeminiEnv
  /\ keyring \in InitCacheKeyring
  /\ InitProcess

NextCache ==
  \/ \E t \in Tasks : \E op \in CacheOps : Start(t, op)
  \/ \E t \in Tasks : StepCache(t)
  \/ \E t \in Tasks : StepGemini(t)

SpecCache == InitCache /\ [][NextCache]_vars

\* ------------------------------------------------------- fair scheduling

\* The runtime keeps polling every spawned task, and tokio's Mutex hands the
\* lock to its waiters in order: a task that can take a step takes it.
\* The stored token data that lead the refresh path to each of its exits:
\* none, refreshable, and with no refresh credential.
InitFairKeyring ==
  {None,
   Some(UnifiedCredentials(
          Some(to_stored(OAuthTokenData(Secret("init", 0), Secret("initr", 0),
                                        BUFFER_SECS - 1, REFRESH_TOKEN_LIFETIME))),
          None)),
   Some(UnifiedCredentials(
          Some(to_stored(OAuthTokenData(Secret("init", 0), EmptySecret,
                                        BUFFER_SECS - 1, -1))),
          None))}

InitFair ==
  /\ env = None
  /\ genv = None
  /\ keyring \in InitFairKeyring
  /\ InitProcess

FairSpec ==
  /\ InitFair
  /\ [][Next]_vars
  /\ \A t \in Tasks : WF_vars(StepCache(t) \/ StepToken(t))

\* ------------------------------------------------------------ the claims

TaskDone(t) == At(t, "idle") /\ task[t].op # "none"
OverrideSet == IsSome(env) /\ ~is_empty(Unwrap(env))
KeyringTokenData ==
  IF keyring = None THEN None ELSE Unwrap(keyring).github_token_data

\* Task t is inside the critical section of refresh_and_get_token: at one of
\* its statements after the lock was granted, or in a callee of one.
RefreshLabels == {"rf_td", "rf_resp", "rf_stored", "rf_expired", "rf_failed"}
InCriticalSection(t) ==
  \/ task[t].pc \in RefreshLabels
  \/ \E i \in 1..Len(task[t].stk) : task[t].stk[i] \in RefreshLabels

\* C1: when every task called get_valid_token once, found the access
\* credential expired and entered the refresh path, and every call returned
\* a credential (no keyring failure), exactly one refresh request was sent
\* and all callers hold the same credential.
C1_OneRefreshSameCredential ==
  ( /\ ~faults
    /\ \A t \in Tasks : /\ TaskDone(t)
                        /\ task[t].op = "get_valid_token"
                        /\ task[t].n = 1
                        /\ task[t].rf
                        /\ task[t].res.kind = "Ok" )
  => /\ netCalls = 1
     /\ \A t1, t2 \in Tasks : task[t1].res = task[t2].res

\* C2: at most one task is inside the refresh critical section, so no two
\* refresh requests are in flight at once.
C2_AtMostOneRefresher ==
  \A t1, t2 \in Tasks :
    InCriticalSection(t1) /\ InCriticalSection(t2) => t1 = t2

\* C2, its case: a refresh request in flight while another caller waits for
\* the lock.
C2_Witness ==
  \E t1, t2 \in Tasks : At(t1, "rf_resp") /\ At(t2, "rf_wait")

\* The stored token data whose access credential is c says it is expired.
StoredExpired(c) ==
  /\ IsSome(KeyringTokenData)
  /\ Unwrap(KeyringTokenData).access_token = c
  /\ parse_from_rfc3339(Unwrap(KeyringTokenData).expires_at) < now + BUFFER_SECS

C4_OverrideReturned ==
  \A t \in Tasks :
    (OverrideSet /\ TaskDone(t) /\ task[t].op = "get_valid_token")
    => task[t].res = Ok(Unwrap(env))

\* C4, its case: the override was returned while the keyring holds token data.
C4_Witness ==
  \E t \in Tasks : /\ OverrideSet
                   /\ TaskDone(t)
                   /\ task[t].op = "get_valid_token"
                   /\ task[t].res = Ok(Unwrap(env))
                   /\ IsSome(KeyringTokenData)

\* C5: with the override set and not empty, no step of get_valid_token,
\* force_refresh or is_authenticated sends a refresh request, writes the
\* keyring or changes a cache.
C5_OverrideBypassesManager ==
  [][\A t \in Tasks :
       (OverrideSet /\ task[t].op \in TokenOps /\ task'[t] # task[t])
       => /\ netCalls' = netCalls
          /\ keyring' = keyring
          /\ dataCache' = dataCache
          /\ tokenCache' = tokenCache]_vars

\* C6: get_valid_token returns the stored access credential directly exactly
\* when its expiry is more than the buffer after the current time; at the
\* buffer or less it enters the refresh path.
C6_DirectIffMoreThanBuffer ==
  [][\A t \in Tasks :
       (At(t, "gvt_td") /\ IsSome(Got(t)) /\ task'[t].pc # "gvt_td")
       => ( (task'[t].pc = "idle")
            <=> (Unwrap(Got(t)).expires_at - now > BUFFER_SECS) )]_vars

\* C7: when the refresh path returns TokenRefreshExpired (no keyring
\* failure), it sent no refresh request and no token data is left in the
\* keyring or present in the cache.
C7_ExpiredLeavesNoTokenData ==
  [][\A t \in Tasks :
       (At(t, "rf_expired") /\ task'[t].pc = "idle" /\ ~faults)
       => /\ task'[t].res = Err("TokenRefreshExpired")
          /\ task[t].att = 0
          /\ ~IsSome(KeyringTokenData')
          /\ ~(IsSome(dataCache') /\ IsSome(Unwrap(dataCache')))]_vars

\* C8: a refresh credential on which a refresh request failed is not sent
\* again (no keyring failure).
C8_DoomedNotRetried ==
  [][\A t \in Tasks :
       (At(t, "rf_td") /\ task'[t].pc = "rf_resp" /\ ~faults)
       => Unwrap(Got(t)).refresh_token \notin hist.doomed]_vars

\* C9: under fair scheduling every task waiting for the refresh lock gets
\* it, and every operation returns.
C9_LockReleasedOnEveryPath ==
  \A t \in Tasks : /\ At(t, "rf_wait") ~> (lockHolder = t)
                   /\ ~At(t, "idle") ~> At(t, "idle")

\* C9, its case: a caller left the refresh path by an error exit and the
\* other caller, which entered after it, holds the lock.
C9_Witness ==
  \E t1, t2 \in Tasks : /\ TaskDone(t1)
                        /\ task[t1].rf
                        /\ task[t1].res.kind = "Err"
                        /\ lockHolder = t2
                        /\ t1 # t2

\* C10: a read-through get never overwrites the cache entry a store or a
\* delete that completed meanwhile put there (no keyring failure).
C10_ReadThroughKeepsWrite ==
  [][\A t \in Tasks :
       /\ (At(t, "gd_write") /\ ~faults /\ IsSome(hist.td) /\ dataCache = hist.td)
          => dataCache' = dataCache
       /\ (At(t, "gk_write") /\ ~faults /\ IsSome(hist.gk) /\ geminiCache = hist.gk)
          => geminiCache' = geminiCache]_vars

\* A store of token data is under way: its value may reach the keyring and
\* the caches at any moment.
StoreRunning ==
  \E t \in Tasks : task[t].op = "store_github_token_data" /\ ~At(t, "idle")

\* C11: once a delete of the GitHub credential has completed (the last
\* completed write is the delete, and no store is under way), a get that
\* reads the cache afterwards never returns a present value: neither
\* get_github_token_data nor get_github_token, also when another get's
\* read-through was in progress while the delete ran.
C11_NoStalePresentAfterDelete ==
  [][\A t \in Tasks :
       ( /\ hist.td = Some(None)
         /\ ~StoreRunning
         /\ \/ At(t, "gd_cache") /\ task[t].op = "get_github_token_data"
            \/ At(t, "gt_cache") /\ task[t].op = "get_github_token"
         /\ task'[t].pc = "idle"
         /\ task'[t].res.kind = "Ok" )
       => ~IsSome(task'[t].res.val)]_vars

\* ================================================== the terminal UI

\* The number of background units dispatched and the number of Tick events
\* the runs below go up to.
MaxUnits == 4
MaxTicks == 2

\* mpsc::channel(32) (app.rs:470).
CHANNEL_CAPACITY == 32

\* should_check: a full hour (update.rs:104-105), in seconds.
CHECK_INTERVAL_SECS == 3600

\* A dispatched background unit (tokio::spawn): what it runs, for which PR
\* number (or flag), with which branch filter, where it stands, how many
\* messages it has sent, and its local copy of the update checkpoint.
Unit(kind, n, branch) ==
  [kind |-> kind, n |-> n, branch |-> branch, pc |-> "run", sent |-> 0,
   st |-> DefaultCheckpoint]

\* What one handler of the UI loop has done so far: the App it leaves, the
\* units it dispatched, the checkpoint file, and the blocking operations it
\* ran on the loop's own thread.
Effect(a, cp) == [app |-> a, spawn |-> <<>>, cp |-> cp, io |-> {}]
Spawn(e, kind, n, branch) ==
  [e EXCEPT !.spawn = Append(@, Unit(kind, n, branch))]
Blocking(e, what) == [e EXCEPT !.io = @ \cup {what}]

\* fetch_pr_list (app.rs:1024-1058).
fetch_pr_list(e) ==
  IF e.app.pr_list_loading \/ ~e.app.repository THEN e
  ELSE Spawn([e EXCEPT !.app.pr_list_loading = TRUE], "pr_list", 0, None)

\* fetch_pr_detail (app.rs:1061-1093).
fetch_pr_detail(e, number) ==
  IF e.app.pr_detail_loading \/ ~e.app.repository THEN e
  ELSE Spawn([e EXCEPT !.app.pr_detail_loading = TRUE], "pr_detail", number,
             None)

\* fetch_pr_comments (app.rs:1096-1142).
fetch_pr_comments(e, pr_number) ==
  IF e.app.pr_comments_loading \/ ~e.app.repository THEN e
  ELSE Spawn([e EXCEPT !.app.pr_comments_loading = TRUE], "pr_comments",
             pr_number, None)

\* fetch_pr_workflow_runs (app.rs:1332-1371).
fetch_pr_workflow_runs(e) ==
  IF \/ e.app.pr_workflow_runs_loading
     \/ ~e.app.repository
     \/ ~IsSome(e.app.selected_pr)
    THEN e
    ELSE Spawn([e EXCEPT !.app.pr_workflow_runs_loading = TRUE],
               "pr_workflow_runs", Unwrap(e.app.selected_pr), None)

\* fetch_workflow_runs_impl (app.rs:1384-1432); silent is 1 for the
\* auto-poll, which hands over the run to keep selected, and 0 otherwise.
fetch_workflow_runs_impl(e, silent) ==
  IF e.app.workflow_runs_loading \/ ~e.app.repository THEN e
  ELSE Spawn([e EXCEPT !.app.workflow_runs_loading = TRUE], "workflow_runs",
             silent, e.app.pr_workflow_branch)

\* fetch_workflow_runs (app.rs:1374-1376).
fetch_workflow_runs(e) == fetch_workflow_runs_impl(e, 0)

\* fetch_branches (app.rs:2596-2633).
fetch_branches(e) ==
  IF e.app.pr_create_loading \/ ~e.app.repository THEN e
  ELSE Spawn([e EXCEPT !.app.pr_create_loading = TRUE], "branches", 0, None)

\* fetch_tags (app.rs:3072-3125).
fetch_tags(e) ==
  IF e.app.tags_loading \/ ~e.app.repository THEN e
  ELSE Spawn([e EXCEPT !.app.tags_loading = TRUE], "tags", 0, None)

\* refresh_changed_files (app.rs:2776-2803): opens the repository and lists
\* its changed files on the calling thread.
refresh_changed_files(e) == Blocking(e, "git")

\* init_pr_create_form (app.rs:2561-2579): update_pr_commits opens the
\* repository when head and base are known (app.rs:2582-2593).
init_pr_create_form(e) == IF e.app.repository THEN Blocking(e, "git") ELSE e

\* submit_pr_create (app.rs:2636-2698), the form being valid.
submit_pr_create(e) ==
  IF e.app.pr_create_submitting \/ ~e.app.repository THEN e
  ELSE Spawn([e EXCEPT !.app.pr_create_submitting = TRUE], "pr_create", 0,
             None)

\* navigate_to (app.rs:2503-2558).  The stack is a Vec: its top is its end.
navigate_to(e, screen) ==
  LET e1 == [e EXCEPT
               !.app.navigation_stack = Append(@, e.app.current_screen),
               !.app.current_screen = screen]
  IN
  CASE screen.s = "PrList" ->
         IF ~e1.app.pr_list_fetched /\ ~e1.app.pr_list_loading
           THEN fetch_pr_list(e1) ELSE e1
    [] screen.s = "PrDetail" ->
         fetch_pr_comments(
           [fetch_pr_detail(e1, screen.n) EXCEPT !.app.pr_comments = <<>>],
           screen.n)
    [] screen.s = "Commit" -> refresh_changed_files(e1)
    [] screen.s = "PrCreate" -> fetch_branches(init_pr_create_form(e1))
    [] screen.s = "WorkflowRuns" ->
         LET e2 == IF e1.app.current_screen = Dashboard
                     THEN [e1 EXCEPT !.app.pr_workflow_branch = None]
                     ELSE e1
         IN fetch_workflow_runs(
              [e2 EXCEPT !.app.workflow_runs_last_poll_tick =
                           e2.app.tick_counter,
                         !.app.workflow_runs = <<>>,
                         !.app.workflow_runs_fetched = FALSE])
    [] screen.s = "Tags" ->
         IF ~e1.app.tags_fetched /\ ~e1.app.tags_loading
           THEN fetch_tags(e1) ELSE e1
    [] OTHER -> e1

\* A go_back that makes the top of the stack active without popping it.
go_back_no_pop(e) ==
  LET stack == e.app.navigation_stack
  IN IF stack = <<>> THEN e
     ELSE [e EXCEPT !.app.current_screen = stack[Len(stack)]]

\* go_back (app.rs:3042-3052).
go_back(e) ==
  LET e1 == IF e.app.current_screen = Screen("WorkflowRuns")
              THEN [e EXCEPT !.app.pr_workflow_branch = None]
              ELSE e
      stack == e1.app.navigation_stack
  IN IF stack = <<>> THEN e1
     ELSE [e1 EXCEPT !.app.current_screen = stack[Len(stack)],
                     !.app.navigation_stack = SubSeq(stack, 1, Len(stack) - 1)]

\* A clear_pending that leaves the path and the digest in place.
clear_pending_keeps_path(cp) ==
  [cp EXCEPT !.pending_version = None, !.partial_download = FALSE]

\* UpdatePersistentState::clear_pending (update.rs:81-87).
clear_pending(cp) ==
  [cp EXCEPT !.pending_update_path = None, !.pending_version = None,
             !.pending_sha256 = None, !.partial_download = FALSE]

\* A should_check that asks for more than an hour.
should_check_late(cp) ==
  \/ ~IsSome(cp.last_check)
  \/ ~parse_ok(Unwrap(cp.last_check))
  \/ now - parse_from_rfc3339(Unwrap(cp.last_check)) > CHECK_INTERVAL_SECS

\* UpdatePersistentState::should_check (update.rs:94-106).
should_check(cp) ==
  \/ ~IsSome(cp.last_check)
  \/ ~parse_ok(Unwrap(cp.last_check))
  \/ (now - parse_from_rfc3339(Unwrap(cp.last_check)))
       \div CHECK_INTERVAL_SECS >= 1

\* UpdatePersistentState::has_pending_update (update.rs:109-114).
has_pending_update(cp) ==
  /\ IsSome(cp.pending_update_path)
  /\ IsSome(cp.pending_version)
  /\ IsSome(cp.pending_sha256)
  /\ ~cp.partial_download

\* quit (app.rs:3055-3065): the checkpoint is loaded, changed and saved on
\* the calling thread.
quit(e) ==
  LET e1 == IF e.app.update_state = "Downloading"
              THEN Blocking(
                     [e EXCEPT !.cp = clear_pending(
                                        [e.cp EXCEPT !.partial_download = TRUE])],
                     "checkpoint")
              ELSE e
  IN [e1 EXCEPT !.app.running = FALSE]

\* do_commit (app.rs:2961-3005), with staged files and a message; ok is
\* whether the commit succeeds.
do_commit(e, ok) ==
  IF ok
    THEN refresh_changed_files(
           Blocking([e EXCEPT !.app.commit_push_prompt = TRUE], "git"))
    ELSE Blocking(e, "git")

\* do_push (app.rs:3008-3039).
do_push(e) ==
  Spawn([e EXCEPT !.app.commit_push_loading = TRUE], "push", 0, None)

\* spawn_update_check (app.rs:3327-3383).
spawn_update_check(e) ==
  IF e.app.update_check_triggered THEN e
  ELSE LET e1 == Blocking(e, "checkpoint") IN
       IF ~should_check(e.cp)
         THEN IF has_pending_update(e.cp)
                THEN [e1 EXCEPT !.app.update_state = "Ready"]
                ELSE e1
         ELSE Spawn([e1 EXCEPT !.app.update_check_triggered = TRUE,
                               !.app.update_state = "Checking"],
                    "update_check", 0, None)

\* start_update_download (app.rs:3386-3428).
start_update_download(e) ==
  IF ~IsSome(e.app.update_available_version) THEN e
  ELSE Spawn([e EXCEPT !.app.update_state = "Downloading"],
             "update_download", 0, None)

\* WorkflowRunStatus::is_active (workflow.rs:21-26) and
\* has_active_workflow_runs (app.rs:1435-1437).
is_active(status) ==
  status \in {"queued", "in_progress", "waiting", "pending", "requested"}
has_active_workflow_runs(a) ==
  \E i \in 1..Len(a.workflow_runs) : is_active(a.workflow_runs[i])

\* POLL_INTERVAL_TICKS (app.rs:1458).
POLL_INTERVAL_TICKS == 28

\* tick_counter and workflow_runs_last_poll_tick are u64 (app.rs:415-417);
\* the counters here are TickBits wide, and wrap as u64 does.
TickBits == 7
TickWrap == 2 ^ TickBits
wrapping_add(a, b) == (a + b) % TickWrap
wrapping_sub(a, b) == (a - b) % TickWrap

\* The poll with the difference taken the other way round.
maybe_poll_workflow_runs_reversed(e) ==
  IF \/ e.app.current_screen # Screen("WorkflowRuns")
     \/ e.app.workflow_runs_loading
     \/ ~has_active_workflow_runs(e.app)
     \/ wrapping_sub(e.app.workflow_runs_last_poll_tick, e.app.tick_counter)
          < POLL_INTERVAL_TICKS
    THEN e
    ELSE fetch_workflow_runs_impl(
           [e EXCEPT !.app.workflow_runs_last_poll_tick = e.app.tick_counter],
           1)

\* maybe_poll_workflow_runs (app.rs:1440-1477).
maybe_poll_workflow_runs(e) ==
  IF \/ e.app.current_screen # Screen("WorkflowRuns")
     \/ e.app.workflow_runs_loading
     \/ ~has_active_workflow_runs(e.app)
     \/ wrapping_sub(e.app.tick_counter, e.app.workflow_runs_last_poll_tick)
          < POLL_INTERVAL_TICKS
    THEN e
    ELSE fetch_workflow_runs_impl(
           [e EXCEPT !.app.workflow_runs_last_poll_tick = e.app.tick_counter],
           1)

\* AppEvent::Tick (app.rs:651-662).
handle_tick(e) ==
  LET e1 == maybe_poll_workflow_runs(
              [e EXCEPT !.app.tick_counter = wrapping_add(@, 1)])
  IN IF ~e1.app.update_check_triggered THEN spawn_update_check(e1) ELSE e1

\* AsyncMessage (app.rs:35-147): its variant, the PR number it is about, the
\* list it carries, and the position at which it was put on the bus.
Msg(type, n, list) == [type |-> type, n |-> n, list |-> list, id |-> 0]

\* handle_async_message (app.rs:672-1021), for the variants the units below
\* send.
handle_async_message(e, msg) ==
  CASE msg.type = "PrListLoaded" ->
         [e EXCEPT !.app.pr_list = msg.list, !.app.pr_list_loading = FALSE,
                   !.app.pr_list_fetched = TRUE,
                   !.app.pr_list_selection = ListState(Len(msg.list))]
    [] msg.type = "PrListError" ->
         [e EXCEPT !.app.pr_list_loading = FALSE, !.app.pr_list_fetched = TRUE]
    [] msg.type = "PrLoaded" ->
         fetch_pr_workflow_runs(
           [e EXCEPT !.app.selected_pr = Some(msg.n),
                     !.app.pr_detail_loading = FALSE])
    [] msg.type = "PrError" -> [e EXCEPT !.app.pr_detail_loading = FALSE]
    [] msg.type \in {"BranchesLoaded", "BranchesError"} ->
         [e EXCEPT !.app.pr_create_loading = FALSE]
    [] msg.type = "PrCreated" ->
         [e EXCEPT !.app.pr_create_submitting = FALSE,
                   !.app.selected_pr = Some(msg.n),
                   !.app.current_screen = PrDetail(msg.n)]
    [] msg.type = "PrCreateError" ->
         [e EXCEPT !.app.pr_create_submitting = FALSE,
                   !.app.error_popup = TRUE]
    [] msg.type = "PushCompleted" ->
         [e EXCEPT !.app.commit_push_loading = FALSE,
                   !.app.commit_push_prompt = FALSE,
                   !.app.commit_tag_prompt = TRUE]
    [] msg.type = "PushError" ->
         [e EXCEPT !.app.commit_push_loading = FALSE,
                   !.app.error_popup = TRUE]
    [] msg.type = "WorkflowRunsLoaded" ->
         [e EXCEPT !.app.workflow_runs = msg.list,
                   !.app.workflow_runs_loading = FALSE,
                   !.app.workflow_runs_fetched = TRUE]
    [] msg.type = "WorkflowRunsError" ->
         [e EXCEPT !.app.workflow_runs_loading = FALSE,
                   !.app.workflow_runs_fetched = TRUE]
    [] msg.type = "PrCommentsLoaded" ->
         [e EXCEPT !.app.pr_comments = msg.list,
                   !.app.pr_comments_loading = FALSE]
    [] msg.type = "PrCommentsError" ->
         [e EXCEPT !.app.pr_comments_loading = FALSE]
    [] msg.type \in {"PrWorkflowRunsLoaded", "PrWorkflowRunsError"} ->
         [e EXCEPT !.app.pr_workflow_runs_loading = FALSE]
    [] msg.type = "CommentReactionsLoaded" -> e
    [] msg.type = "UpdateUpToDate" -> [e EXCEPT !.app.update_state = "UpToDate"]
    [] msg.type = "UpdateAvailable" ->
         start_update_download(
           [e EXCEPT !.app.update_state = "Available",
                     !.app.update_available_version = Some(msg.n)])
    [] msg.type = "UpdateDownloadProgress" ->
         [e EXCEPT !.app.update_state = "Downloading"]
    [] msg.type = "UpdateDownloadComplete" ->
         [e EXCEPT !.app.update_state = "Ready"]
    [] msg.type = "UpdateFailed" -> [e EXCEPT !.app.update_state = "Idle"]
    [] msg.type = "PrMerged" ->
         fetch_pr_comments(
           fetch_pr_detail(
             [e EXCEPT !.app.merge_in_progress = FALSE,
                       !.app.merge_dialog_open = FALSE],
             msg.n),
           msg.n)
    [] msg.type = "PrMergeError" ->
         [e EXCEPT !.app.merge_in_progress = FALSE,
                   !.app.merge_dialog_open = FALSE,
                   !.app.error_popup = TRUE]
    [] msg.type = "TagsLoaded" ->
         [e EXCEPT !.app.tags_loading = FALSE, !.app.tags_fetched = TRUE]
    [] msg.type = "TagsError" -> [e EXCEPT !.app.tags_loading = FALSE]
    [] msg.type \in {"TagCreated", "TagDeleted", "TagPushed"} ->
         fetch_tags([e EXCEPT !.app.tags_fetched = FALSE])
    [] msg.type \in {"TagCreateError", "TagDeleteError", "TagPushError"} ->
         [e EXCEPT !.app.error_popup = TRUE]
    [] OTHER -> e

\* ListState::next (app.rs:177-181).
next(ls) ==
  IF ls.total > 0 THEN [ls EXCEPT !.selected = (@ + 1) % ls.total] ELSE ls

\* handle_dashboard_key (app.rs:1585-1606), the shortcut keys.
handle_dashboard_key(e, key) ==
  CASE key = "p" -> navigate_to(e, Screen("PrList"))
    [] key = "c" -> navigate_to(e, Screen("Commit"))
    [] key = "t" -> navigate_to(e, Screen("Tags"))
    [] key = "w" -> navigate_to(e, Screen("WorkflowRuns"))
    [] key = "s" -> navigate_to(e, Screen("Settings"))
    [] OTHER -> e

\* handle_pr_list_key (app.rs:1608-1630).
handle_pr_list_key(e, key) ==
  CASE key = "j" ->
         [e EXCEPT !.app.pr_list_selection = next(@)]
    [] key = "Enter" ->
         IF e.app.pr_list_selection.selected < Len(e.app.pr_list)
           THEN navigate_to(
                  e, PrDetail(e.app.pr_list[e.app.pr_list_selection.selected + 1]))
           ELSE e
    [] key = "n" -> navigate_to(e, Screen("PrCreate"))
    [] key = "r" ->
         fetch_pr_list([e EXCEPT !.app.pr_list = <<>>,
                                 !.app.pr_list_fetched = FALSE])
    [] OTHER -> e

\* handle_pr_create_key (app.rs:1634-1720): Submit stands for Enter on the
\* submit field of a valid form.
handle_pr_create_key(e, key) ==
  IF key = "Submit" THEN submit_pr_create(e) ELSE e

\* merge_pr (app.rs:1195-1259), the PR being open.
merge_pr(e) ==
  IF ~IsSome(e.app.selected_pr) \/ ~e.app.repository THEN e
  ELSE Spawn([e EXCEPT !.app.merge_in_progress = TRUE], "merge",
             Unwrap(e.app.selected_pr), None)

\* handle_merge_dialog_key (app.rs:1888-1919).
handle_merge_dialog_key(e, key) ==
  IF e.app.merge_in_progress THEN e
  ELSE CASE key = "Esc" -> [e EXCEPT !.app.merge_dialog_open = FALSE]
         [] key = "Enter" -> merge_pr(e)
         [] OTHER -> e

\* handle_pr_detail_key (app.rs:1921-2122): the merge dialog, then the
\* normal navigation mode.
handle_pr_detail_key(e, key) ==
  IF e.app.merge_dialog_open THEN handle_merge_dialog_key(e, key) ELSE
  CASE key = "r" ->
         fetch_pr_workflow_runs(
           fetch_pr_comments(
             fetch_pr_detail(
               [e EXCEPT !.app.selected_pr = None, !.app.pr_comments = <<>>],
               e.app.current_screen.n),
             e.app.current_screen.n))
    [] key = "w" ->
         IF IsSome(e.app.selected_pr)
           THEN navigate_to(
                  [e EXCEPT !.app.pr_workflow_branch = e.app.selected_pr],
                  Screen("WorkflowRuns"))
           ELSE e
    [] key = "m" ->
         IF IsSome(e.app.selected_pr)
           THEN [e EXCEPT !.app.merge_dialog_open = TRUE] ELSE e
    [] OTHER -> e

\* handle_commit_key (app.rs:2124-2250): Commit stands for Enter in message
\* mode with a message and staged files; ok is whether the commit succeeds.
handle_commit_key(e, key, ok) ==
  IF e.app.commit_push_prompt
    THEN IF e.app.commit_push_loading THEN e
         ELSE CASE key \in {"Enter", "y"} -> do_push(e)
                [] key = "n" -> [e EXCEPT !.app.commit_push_prompt = FALSE]
                [] OTHER -> e
  ELSE IF e.app.commit_tag_prompt
    THEN CASE key = "y" ->
                [navigate_to([e EXCEPT !.app.commit_tag_prompt = FALSE],
                             Screen("Tags"))
                   EXCEPT !.app.tag_create_mode = TRUE]
           [] key = "n" -> [e EXCEPT !.app.commit_tag_prompt = FALSE]
           [] OTHER -> e
  ELSE CASE key = "Commit" -> do_commit(e, ok)
         [] key = "r" -> refresh_changed_files(e)
         [] OTHER -> e

\* create_tag_from_input (app.rs:3261-3320) with a name typed.
create_tag_from_input(e) ==
  Spawn([e EXCEPT !.app.tag_create_mode = FALSE, !.app.tags_loading = TRUE],
        "tag_create", 0, None)

\* handle_tag_create_key (app.rs:3216-3258): CreateTag stands for Enter on
\* the last field of the form.
handle_tag_create_key(e, key) ==
  CASE key = "Esc" -> [e EXCEPT !.app.tag_create_mode = FALSE]
    [] key = "CreateTag" -> create_tag_from_input(e)
    [] OTHER -> e

\* push_all_tags (app.rs:3189-3208).
push_all_tags(e) == Spawn(e, "tag_push", 0, None)

\* handle_tags_key (app.rs:3128-3157).
handle_tags_key(e, key) ==
  CASE key = "r" -> fetch_tags([e EXCEPT !.app.tags_fetched = FALSE])
    [] key = "P" -> push_all_tags(e)
    [] key = "n" -> [e EXCEPT !.app.tag_create_mode = TRUE]
    [] OTHER -> e

\* handle_settings_key (app.rs:2378-2400): SaveKey stands for Enter in input
\* mode with a key typed, which calls CredentialStore::store_gemini_key.
handle_settings_key(e, key) ==
  IF key = "SaveKey" THEN Blocking(e, "keyring") ELSE e

\* handle_workflow_runs_key (app.rs:2458-2473).
handle_workflow_runs_key(e, key) ==
  IF key = "r"
    THEN fetch_workflow_runs(
           [e EXCEPT !.app.workflow_runs_last_poll_tick = e.app.tick_counter,
                     !.app.workflow_runs = <<>>,
                     !.app.workflow_runs_fetched = FALSE])
    ELSE e

\* event.rs: is_quit_key, is_back_key.
is_quit_key(key) == key = "q"
is_back_key(key) == key = "Esc"

\* handle_key_event (app.rs:1480-1583).  The PR create form stands on a text
\* field, where only Esc leaves the form.
handle_key_event(e, key, ok) ==
  IF e.app.error_popup
    THEN IF key \in {"Enter", "Esc", "q"}
           THEN [e EXCEPT !.app.error_popup = FALSE] ELSE e
  ELSE IF e.app.current_screen = Screen("PrCreate")
    THEN IF key = "Esc" THEN go_back(e) ELSE handle_pr_create_key(e, key)
  ELSE IF e.app.tag_create_mode THEN handle_tag_create_key(e, key)
  ELSE IF is_quit_key(key)
    THEN IF e.app.current_screen = Dashboard THEN quit(e) ELSE go_back(e)
  ELSE IF is_back_key(key) THEN go_back(e)
  ELSE CASE e.app.current_screen.s = "Dashboard" -> handle_dashboard_key(e, key)
         [] e.app.current_screen.s = "PrList" -> handle_pr_list_key(e, key)
         [] e.app.current_screen.s = "PrDetail" -> handle_pr_detail_key(e, key)
         [] e.app.current_screen.s = "Commit" -> handle_commit_key(e, key, ok)
         [] e.app.current_screen.s = "Tags" -> handle_tags_key(e, key)
         [] e.app.current_screen.s = "Settings" -> handle_settings_key(e, key)
         [] e.app.current_screen.s = "WorkflowRuns" ->
              handle_workflow_runs_key(e, key)
         [] OTHER -> e

\* ----------------------------------------------------- the background units

\* The chunks a download stream is followed for.
MaxChunks == 1

\* What the server answers: the open PRs, the comments of PR n, the workflow
\* runs by status.
OpenPrs == <<1, 2>>
CommentsOf(n) == <<n>>
RunLists == {<<>>, <<"in_progress">>}
NewVersion == 2

\* tx.send(msg).await (e.g. app.rs:1132): waits for room on the bus.
CanSend == Len(chan) < CHANNEL_CAPACITY
Send(msg) == Append(chan, [msg EXCEPT !.id = uilog.sent + 1])

\* The messages a unit of each kind sends as the last thing it does: on
\* success and on failure (app.rs:1040-1056, 1077-1091, 1362-1369,
\* 1417-1430, 2617-2631, 2680-2696, 3022-3037, 3105-3123).
OkMsgs(u) ==
  CASE u.kind = "pr_list" -> {Msg("PrListLoaded", 0, OpenPrs)}
    [] u.kind = "pr_detail" -> {Msg("PrLoaded", u.n, <<>>)}
    [] u.kind = "pr_workflow_runs" -> {Msg("PrWorkflowRunsLoaded", u.n, <<>>)}
    [] u.kind = "workflow_runs" ->
         {Msg("WorkflowRunsLoaded", 0, l) : l \in RunLists}
    [] u.kind = "branches" -> {Msg("BranchesLoaded", 0, <<>>)}
    [] u.kind = "tags" -> {Msg("TagsLoaded", 0, <<>>)}
    [] u.kind = "pr_create" -> {Msg("PrCreated", CreatedPrNumber, <<>>)}
    [] u.kind = "push" -> {Msg("PushCompleted", 0, <<>>)}
    [] u.kind = "merge" -> {Msg("PrMerged", u.n, <<>>)}
    [] u.kind = "tag_create" -> {Msg("TagCreated", 0, <<>>)}
    [] u.kind = "tag_push" -> {Msg("TagPushed", 0, <<>>)}
    [] OTHER -> {}
ErrMsgs(u) ==
  CASE u.kind = "pr_list" -> {Msg("PrListError", 0, <<>>)}
    [] u.kind = "pr_detail" -> {Msg("PrError", u.n, <<>>)}
    [] u.kind = "pr_comments" -> {Msg("PrCommentsError", u.n, <<>>)}
    [] u.kind = "pr_workflow_runs" -> {Msg("PrWorkflowRunsError", u.n, <<>>)}
    [] u.kind = "workflow_runs" -> {Msg("WorkflowRunsError", 0, <<>>)}
    [] u.kind = "branches" -> {Msg("BranchesError", 0, <<>>)}
    [] u.kind = "tags" -> {Msg("TagsError", 0, <<>>)}
    [] u.kind = "pr_create" -> {Msg("PrCreateError", 0, <<>>)}
    [] u.kind = "push" -> {Msg("PushError", 0, <<>>)}
    [] u.kind = "merge" -> {Msg("PrMergeError", u.n, <<>>)}
    [] u.kind = "tag_create" -> {Msg("TagCreateError", 0, <<>>)}
    [] u.kind = "tag_push" -> {Msg("TagPushError", 0, <<>>)}
    [] OTHER -> {}

\* The unit at position i sends msg and goes on at pc, or returns.
Remove(s, i) == SubSeq(s, 1, i - 1) \o SubSeq(s, i + 1, Len(s))
UnitSends(i, msg, pc) ==
  /\ CanSend
  /\ chan' = Send(msg)
  /\ units' = IF pc = "done" THEN Remove(units, i)
              ELSE [units EXCEPT ![i].pc = pc, ![i].sent = @ + 1]
  /\ uilog' = [uilog EXCEPT
                 !.sent = @ + 1,
                 !.finished = IF pc = "done" THEN @ \cup {units[i].sent + 1}
                              ELSE @]

\* A unit whose task body ends with one send (fetch_pr_list, fetch_pr_detail,
\* fetch_pr_workflow_runs, fetch_workflow_runs_impl, fetch_branches,
\* fetch_tags, submit_pr_create, do_push), and the failure of
\* fetch_pr_comments (app.rs:1137-1139).
UnitReply(i) ==
  /\ i \in 1..Len(units)
  /\ units[i].pc = "run"
  /\ \E msg \in OkMsgs(units[i]) \cup ErrMsgs(units[i]) :
       UnitSends(i, msg, "done")
  /\ UNCHANGED <<credVars, updVars, app, loopPc, checkpoint, staging>>

\* fetch_pr_comments on success (app.rs:1130-1136): the comments, then the
\* reactions.
UnitComments(i) ==
  /\ i \in 1..Len(units)
  /\ units[i].kind = "pr_comments"
  /\ \/ /\ units[i].pc = "run"
        /\ UnitSends(i, Msg("PrCommentsLoaded", units[i].n,
                            CommentsOf(units[i].n)), "reactions")
     \/ /\ units[i].pc = "reactions"
        /\ UnitSends(i, Msg("CommentReactionsLoaded", units[i].n, <<>>),
                     "done")
  /\ UNCHANGED <<credVars, updVars, app, loopPc, checkpoint, staging>>

\* UpdatePersistentState::mark_checked (update.rs:90-92).
mark_checked(cp) == [cp EXCEPT !.last_check = Some(to_rfc3339(now))]

\* The update check (app.rs:3349-3382): the checkpoint is marked and saved
\* before the outcome is sent, unless the check failed.
UnitUpdateCheck(i) ==
  /\ i \in 1..Len(units)
  /\ units[i].kind = "update_check"
  /\ \/ /\ \E msg \in {Msg("UpdateUpToDate", 0, <<>>),
                       Msg("UpdateAvailable", NewVersion, <<>>)} :
             UnitSends(i, msg, "done")
        /\ checkpoint' = mark_checked(checkpoint)
     \/ /\ UnitSends(i, Msg("UpdateFailed", 0, <<>>), "done")
        /\ UNCHANGED checkpoint
  /\ UNCHANGED <<credVars, updVars, app, loopPc, staging>>

\* download_update, up to the request (update_checker.rs:230-243): the flag
\* is saved, then the request is made.
UnitDownloadMark(i) ==
  /\ i \in 1..Len(units)
  /\ units[i].kind = "update_download"
  /\ units[i].pc = "run"
  /\ LET st == [checkpoint EXCEPT !.partial_download = TRUE] IN
       /\ checkpoint' = st
       /\ units' = [units EXCEPT ![i].st = st, ![i].pc = "request"]
  /\ UNCHANGED <<credVars, updVars, app, chan, loopPc, staging, uilog>>

\* The response and File::create (update_checker.rs:236-249).
UnitDownloadRequest(i) ==
  /\ i \in 1..Len(units)
  /\ units[i].kind = "update_download"
  /\ units[i].pc = "request"
  /\ \/ /\ staging' = [staging EXCEPT !.partial = TRUE]
        /\ units' = [units EXCEPT ![i].pc = "stream"]
     \/ /\ units' = [units EXCEPT ![i].pc = "failed"]
        /\ UNCHANGED staging
  /\ UNCHANGED <<credVars, updVars, app, chan, loopPc, checkpoint, uilog>>

\* One chunk of the stream (update_checker.rs:251-261); the progress
\* callback is a try_send, dropped when the bus is full (app.rs:3411-3415).
UnitDownloadChunk(i) ==
  /\ i \in 1..Len(units)
  /\ units[i].kind = "update_download"
  /\ units[i].pc = "stream"
  /\ \/ /\ units[i].n < MaxChunks
        /\ IF CanSend
             THEN /\ chan' = Send(Msg("UpdateDownloadProgress", 0, <<>>))
                  /\ units' = [units EXCEPT ![i].n = @ + 1, ![i].sent = @ + 1]
                  /\ uilog' = [uilog EXCEPT !.sent = @ + 1]
             ELSE /\ units' = [units EXCEPT ![i].n = @ + 1]
                  /\ UNCHANGED <<chan, uilog>>
     \/ /\ units' = [units EXCEPT ![i].pc = "failed"]
        /\ UNCHANGED <<chan, uilog>>
  /\ UNCHANGED <<credVars, updVars, app, loopPc, checkpoint, staging>>

\* The end of the stream: sync_all and the rename to the final name
\* (update_checker.rs:263-267).
UnitDownloadRename(i) ==
  /\ i \in 1..Len(units)
  /\ units[i].kind = "update_download"
  /\ units[i].pc = "stream"
  /\ staging' = [partial |-> FALSE, final |-> "unverified"]
  /\ units' = [units EXCEPT ![i].pc = "verify"]
  /\ UNCHANGED <<credVars, updVars, app, chan, loopPc, checkpoint, uilog>>

\* verify_binary (update_checker.rs:309-313): a binary that does not run is
\* removed.
UnitDownloadVerify(i) ==
  /\ i \in 1..Len(units)
  /\ units[i].kind = "update_download"
  /\ units[i].pc = "verify"
  /\ \/ /\ staging' = [staging EXCEPT !.final = "verified"]
        /\ units' = [units EXCEPT ![i].pc = "save"]
     \/ /\ staging' = [staging EXCEPT !.final = "none"]
        /\ units' = [units EXCEPT ![i].pc = "failed"]
  /\ UNCHANGED <<credVars, updVars, app, chan, loopPc, checkpoint, uilog>>

\* calculate_sha256 (update_checker.rs:329-335), by the file's bytes: those
\* of the release, or those of a file changed since it was downloaded.
calculate_sha256(file) == IF file = "corrupt" THEN "damaged" ELSE "sha256"

\* The digest and the final save (update_checker.rs:315-323), of the copy
\* loaded at the start.
UnitDownloadSave(i) ==
  /\ i \in 1..Len(units)
  /\ units[i].kind = "update_download"
  /\ units[i].pc = "save"
  /\ checkpoint' = [units[i].st EXCEPT
                      !.partial_download = FALSE,
                      !.pending_update_path = Some("final"),
                      !.pending_version = Some(NewVersion),
                      !.pending_sha256 =
                         Some(calculate_sha256(staging.final))]
  /\ units' = [units EXCEPT ![i].pc = "complete"]
  /\ UNCHANGED <<credVars, updVars, app, chan, loopPc, staging, uilog>>

\* The outcome of the download (app.rs:3417-3426).
UnitDownloadDone(i) ==
  /\ i \in 1..Len(units)
  /\ units[i].kind = "update_download"
  /\ \/ /\ units[i].pc = "complete"
        /\ UnitSends(i, Msg("UpdateDownloadComplete", NewVersion, <<>>), "done")
     \/ /\ units[i].pc = "failed"
        /\ UnitSends(i, Msg("UpdateFailed", 0, <<>>), "done")
  /\ UNCHANGED <<credVars, updVars, app, loopPc, checkpoint, staging>>

\* ------------------------------------------------------------ the UI loop

\* A handler's effect takes place: the App, the units it dispatched, the
\* checkpoint file, and what it ran on the loop's own thread.
Apply(e) ==
  /\ uilog.dispatched + Len(e.spawn) <= MaxUnits
  /\ app' = e.app
  /\ units' = units \o e.spawn
  /\ checkpoint' = e.cp

\* terminal.draw (app.rs:634-637).
Draw ==
  /\ loopPc = "draw"
  /\ loopPc' = "drain"
  /\ UNCHANGED <<credVars, updVars, app, chan, units, checkpoint, staging, uilog>>

\* A receive that hands out the newest message instead of the oldest.
DrainNewestFirst ==
  /\ loopPc = "drain"
  /\ chan # <<>>
  /\ LET msg == chan[Len(chan)]
         e == handle_async_message(Effect(app, checkpoint), msg)
     IN /\ Apply(e)
        /\ chan' = SubSeq(chan, 1, Len(chan) - 1)
        /\ uilog' = [uilog EXCEPT
                       !.dispatched = @ + Len(e.spawn),
                       !.applied = @ + 1,
                       !.in_order = @ /\ msg.id = uilog.applied + 1,
                       !.io = @ \cup e.io]
  /\ UNCHANGED <<credVars, updVars, loopPc, staging>>

\* One turn of the try_recv loop (app.rs:639-642).
Drain ==
  /\ loopPc = "drain"
  /\ chan # <<>>
  /\ LET msg == Head(chan)
         e == handle_async_message(Effect(app, checkpoint), msg)
     IN /\ Apply(e)
        /\ chan' = Tail(chan)
        /\ uilog' = [uilog EXCEPT
                       !.dispatched = @ + Len(e.spawn),
                       !.applied = @ + 1,
                       !.in_order = @ /\ msg.id = uilog.applied + 1,
                       !.io = @ \cup e.io]
  /\ UNCHANGED <<credVars, updVars, loopPc, staging>>

\* try_recv finds the bus empty.
DrainDone ==
  /\ loopPc = "drain"
  /\ chan = <<>>
  /\ loopPc' = "event"
  /\ UNCHANGED <<credVars, updVars, app, chan, units, checkpoint, staging, uilog>>

\* The event ev, handled with effect e, enters the workflow-runs screen,
\* refreshes it by hand or dispatches a fetch of the runs: the ticks until the
\* next poll count from here.
PollTimerRestarts(e, ev) ==
  \/ \E j \in 1..Len(e.spawn) : e.spawn[j].kind = "workflow_runs"
  \/ /\ e.app.current_screen = Screen("WorkflowRuns")
     /\ app.current_screen # Screen("WorkflowRuns")
  \/ /\ ev = "r"
     /\ app.current_screen = Screen("WorkflowRuns")
     /\ ~app.error_popup /\ ~app.tag_create_mode

\* After an event the loop tests self.running (app.rs:633); since_poll counts
\* the ticks since the poll timer last restarted.
AfterEvent(e, ev) ==
  /\ Apply(e)
  /\ loopPc' = IF e.app.running THEN "draw" ELSE "stopped"
  /\ uilog' = [uilog EXCEPT
                 !.dispatched = @ + Len(e.spawn),
                 !.io = @ \cup e.io,
                 !.since_poll = IF PollTimerRestarts(e, ev) THEN 0
                                ELSE IF ev = "Tick" THEN @ + 1 ELSE @]
  /\ UNCHANGED <<credVars, updVars, chan, staging>>

\* AppEvent::Key (app.rs:646-648).
KeyEvent(keys) ==
  /\ loopPc = "event"
  /\ \E key \in keys : \E ok \in BOOLEAN :
       AfterEvent(handle_key_event(Effect(app, checkpoint), key, ok), key)

\* AppEvent::Tick (app.rs:651-662).
TickEvent(ticks) ==
  /\ loopPc = "event"
  /\ app.tick_counter \in ticks
  /\ AfterEvent(handle_tick(Effect(app, checkpoint)), "Tick")

\* AppEvent::Resize (app.rs:649-650).
ResizeEvent ==
  /\ loopPc = "event"
  /\ AfterEvent(Effect(app, checkpoint), "Resize")

\* ------------------------------------------------------- the TUI's runs

\* The checkpoint file a previous run left: none, or one checked within the
\* hour with a downloaded update pending.
InitCheckpoints ==
  {DefaultCheckpoint,
   [last_check |-> Some(to_rfc3339(0)), pending_update_path |-> Some("final"),
    pending_version |-> Some(NewVersion), pending_sha256 |-> Some("sha256"),
    partial_download |-> FALSE]}

InitUi ==
  /\ env = None
  /\ genv = None
  /\ keyring = None
  /\ InitCredentials
  /\ \E cp \in InitCheckpoints :
       /\ InitTui(TRUE, cp)
       /\ InitInstall(IF IsSome(cp.pending_update_path) THEN "verified"
                                                         ELSE "none")

\* The units of the update check and of the download.
UnitUpdate(i) ==
  \/ UnitUpdateCheck(i)
  \/ UnitDownloadMark(i) \/ UnitDownloadRequest(i) \/ UnitDownloadChunk(i)
  \/ UnitDownloadRename(i) \/ UnitDownloadVerify(i) \/ UnitDownloadSave(i)
  \/ UnitDownloadDone(i)

\* The pull request screens: the list, a PR's detail, the create form and
\* the workflow runs, with no update check.
NavKeys == {"q", "Esc", "Enter", "p", "n", "r", "j", "w", "m", "Submit"}

NextNav ==
  \/ Draw \/ Drain \/ DrainDone
  \/ KeyEvent(NavKeys) \/ ResizeEvent
  \/ \E i \in 1..MaxUnits : UnitReply(i) \/ UnitComments(i)

SpecNav == InitUi /\ [][NextNav]_vars

\* The commit, tags and settings screens beside the update check and the
\* download it starts.
LocalKeys == {"q", "Esc", "Enter", "c", "t", "s", "n", "r", "y", "Commit", "SaveKey"}

NextLocal ==
  \/ Draw \/ Drain \/ DrainDone
  \/ KeyEvent(LocalKeys) \/ TickEvent(0..(MaxTicks - 1)) \/ ResizeEvent
  \/ \E i \in 1..MaxUnits : UnitReply(i) \/ UnitUpdate(i)

SpecLocal == InitUi /\ [][NextLocal]_vars

\* The tags screen: its list, the creation form and the push of all tags.
TagKeys == {"q", "Esc", "t", "n", "r", "P", "CreateTag"}

NextTags ==
  \/ Draw \/ Drain \/ DrainDone
  \/ KeyEvent(TagKeys)
  \/ \E i \in 1..MaxUnits : UnitReply(i)

SpecTags == InitUi /\ [][NextTags]_vars

\* The branch filter of the workflow runs.  The session is taken up after the
\* keys p, n, Submit and Esc with the PR list and the branches answered: the
\* PR list is shown and the creation of a PR is still under way.  uilog
\* counts from here.
SessionAtPrList ==
  LET e1 == handle_key_event(Effect(NewApp(TRUE), DefaultCheckpoint), "p", TRUE)
      e2 == handle_async_message(e1, Msg("PrListLoaded", 0, OpenPrs))
      e3 == handle_key_event(e2, "n", TRUE)
      e4 == handle_async_message(e3, Msg("BranchesLoaded", 0, <<>>))
      e5 == handle_key_event(e4, "Submit", TRUE)
  IN handle_key_event(e5, "Esc", TRUE)
FilterKeys == {"Esc", "Enter", "w"}

InitFilter ==
  /\ env = None
  /\ genv = None
  /\ keyring = None
  /\ InitCredentials
  /\ InitInstall("none")
  /\ app = SessionAtPrList.app
  /\ units = SelectSeq(SessionAtPrList.spawn, LAMBDA u : u.kind = "pr_create")
  /\ chan = <<>>
  /\ loopPc = "draw"
  /\ checkpoint = DefaultCheckpoint
  /\ uilog = [dispatched |-> 0, sent |-> 0, applied |-> 0, in_order |-> TRUE,
              finished |-> {}, io |-> {}, since_poll |-> 0]

NextFilter ==
  \/ Draw \/ Drain \/ DrainDone
  \/ KeyEvent(FilterKeys)
  \/ \E i \in 1..MaxUnits : UnitReply(i) \/ UnitComments(i)

SpecFilter == InitFilter /\ [][NextFilter]_vars

\* The workflow-runs screen over many ticks: the session starts on the
\* Dashboard with the update check throttled, its tick counter at 0 or a
\* poll interval before the counter wraps.
MaxPollTicks == 58
WrapStart == TickWrap - POLL_INTERVAL_TICKS - 2
PollTicks == (0..(MaxPollTicks - 1)) \cup (WrapStart..(TickWrap - 1))
PollKeys == {"q", "Esc", "w", "r"}

InitPoll ==
  /\ env = None
  /\ genv = None
  /\ keyring = None
  /\ InitCredentials
  /\ InitInstall("none")
  /\ \E t \in {0, WrapStart} :
       /\ app = [NewApp(TRUE) EXCEPT !.tick_counter = t]
       /\ uilog = [dispatched |-> 0, sent |-> 0, applied |-> 0,
                   in_order |-> TRUE, finished |-> {},
                   io |-> IF t = 0 THEN {} ELSE {"checkpoint"},
                   since_poll |-> t]
  /\ chan = <<>>
  /\ units = <<>>
  /\ loopPc = "draw"
  /\ checkpoint = [DefaultCheckpoint EXCEPT !.last_check = Some(to_rfc3339(0))]

NextPoll ==
  \/ Draw \/ Drain \/ DrainDone
  \/ KeyEvent(PollKeys) \/ TickEvent(PollTicks)
  \/ \E i \in 1..MaxUnits : UnitReply(i)

SpecPoll == InitPoll /\ [][NextPoll]_vars

\* ------------------------------------------------- the claims about the TUI

\* C12: in every iteration of the UI loop the queued outcome messages are
\* all drained and applied before the frame is rendered, so that whenever a
\* frame is drawn no received message is still waiting on the bus.
C12_DrainBeforeRender ==
  [][(loopPc = "draw" /\ loopPc' = "drain") => chan = <<>>]_vars

\* C13: every outcome message put on the bus is applied by
\* handle_async_message exactly once and in the order it was received: the
\* messages applied so far are the first ones sent, each applied at its own
\* position, and the bus holds exactly the remaining ones in sending order.
C13_AppliedOnceInOrder ==
  /\ uilog.in_order
  /\ uilog.applied + Len(chan) = uilog.sent
  /\ \A k \in 1..Len(chan) : chan[k].id = uilog.applied + k

\* Several messages were applied in earlier turns and several more are
\* queued together for the drain that is under way.
C13_Witness ==
  /\ loopPc = "drain"
  /\ uilog.applied >= 3
  /\ Len(chan) >= 2

\* C14: every dispatched background operation sends exactly one outcome
\* message over its whole lifetime: no unit still running has sent more than
\* one, and every unit that returned had sent exactly one.
C14_ExactlyOneMessage ==
  /\ \A i \in 1..Len(units) : units[i].sent <= 1
  /\ uilog.finished \subseteq {1}

\* C15: whenever the current screen is PrDetail(n) and neither the PR detail
\* nor the comments are marked loading, selected_pr, if present, is PR n and
\* pr_comments holds comments of PR n only, whatever screens were visited
\* and whatever messages arrived late.
C15_DetailMatchesScreen ==
  ( /\ app.current_screen.s = "PrDetail"
    /\ ~app.pr_detail_loading
    /\ ~app.pr_comments_loading )
  => /\ IsSome(app.selected_pr) => Unwrap(app.selected_pr) = app.current_screen.n
     /\ \A k \in 1..Len(app.pr_comments) :
          app.pr_comments[k] = app.current_screen.n

\* The screen whose handler dispatched the operation a message answers.
Origin(msg) ==
  CASE msg.type \in {"PrListLoaded", "PrListError"} -> Screen("PrList")
    [] msg.type \in {"PrLoaded", "PrError", "PrCommentsLoaded",
                     "PrCommentsError", "CommentReactionsLoaded",
                     "PrWorkflowRunsLoaded", "PrWorkflowRunsError"} ->
         PrDetail(msg.n)
    [] msg.type \in {"BranchesLoaded", "BranchesError", "PrCreated",
                     "PrCreateError"} -> Screen("PrCreate")
    [] msg.type \in {"WorkflowRunsLoaded", "WorkflowRunsError"} ->
         Screen("WorkflowRuns")
    [] OTHER -> app.current_screen

\* C16: a message applied after its originating screen was left changes
\* neither current_screen nor the navigation stack.
C16_StaleMessageKeepsScreen ==
  [][( /\ uilog'.applied = uilog.applied + 1
       /\ app.current_screen # Origin(Head(chan)) )
     => /\ app'.current_screen = app.current_screen
        /\ app'.navigation_stack = app.navigation_stack]_vars

\* Screen (app.rs:151-161), with the PRs of the list.
AllScreens ==
  {Screen(s) : s \in {"Dashboard", "PrList", "PrCreate", "Commit", "Tags",
                      "Settings", "Auth", "WorkflowRuns"}}
  \cup {PrDetail(n) : n \in PrNumbers}

\* C17: from every state the App reaches, navigate_to(s) pushes the active
\* screen and makes s active; go_back pops the stack and makes the popped
\* screen active, or changes neither when the stack is empty; and
\* navigate_to(s) followed by go_back restores the active screen and the
\* stack.
C17_NavigateThenBack ==
  LET e == Effect(app, checkpoint)
      cur == app.current_screen
      stack == app.navigation_stack
      back == go_back(e)
  IN /\ \A s \in AllScreens :
          LET nav == navigate_to(e, s) IN
            /\ nav.app.current_screen = s
            /\ nav.app.navigation_stack = Append(stack, cur)
            /\ go_back(nav).app.current_screen = cur
            /\ go_back(nav).app.navigation_stack = stack
     /\ IF stack = <<>>
          THEN /\ back.app.current_screen = cur
               /\ back.app.navigation_stack = <<>>
          ELSE /\ back.app.current_screen = stack[Len(stack)]
               /\ Append(back.app.navigation_stack, stack[Len(stack)]) = stack

\* The user went from the list into a PR's detail and back: the comments
\* fetch that navigation dispatched is still loading, and the list is the
\* active screen again over the stack it had.
C17_Witness ==
  /\ app.current_screen = Screen("PrList")
  /\ app.navigation_stack = <<Dashboard>>
  /\ app.pr_comments_loading

\* The data of screen s is loaded, or being loaded, in App a.
DataReady(a, s) ==
  CASE s.s = "PrList" -> a.pr_list_fetched \/ a.pr_list_loading
    [] s.s = "PrDetail" ->
         \/ a.pr_detail_loading /\ a.pr_comments_loading
         \/ a.selected_pr = Some(s.n) /\ a.pr_comments = CommentsOf(s.n)
    [] s.s = "WorkflowRuns" ->
         a.workflow_runs_fetched \/ a.workflow_runs_loading
    [] s.s = "Tags" -> a.tags_fetched \/ a.tags_loading
    [] OTHER -> FALSE

\* C18: a key event that navigates (the stack grows by the screen left) to a
\* screen whose data is loaded or loading dispatches no background unit.
C18_NavigationDoesNotRefetch ==
  [][( /\ loopPc = "event"
       /\ app'.navigation_stack =
            Append(app.navigation_stack, app.current_screen)
       /\ DataReady(app, app'.current_screen) )
     => units' = units]_vars

\* C19: the UI loop never runs a blocking operation (local disk, secret
\* store, version control) on its own thread: every handler of a key event,
\* tick or message leaves such work to a dispatched unit.
C19_SchedulerNeverBlocks == uilog.io = {}

\* C20: in no reachable state does the staging directory hold a .partial
\* file, or a final file of the download that is not yet verified, while the
\* partial-download flag of the persisted checkpoint is false.
C20_FlagCoversDownload ==
  (staging.partial \/ staging.final = "unverified")
    => checkpoint.partial_download

\* ------------------------------------------------ claims about force_refresh

\* C30: force_refresh that finds stored token data with a non-empty,
\* unexpired refresh credential sends a refresh request, also when the
\* stored access credential is not yet expired by the local check.
C30_ForceRefreshSendsRequest ==
  [][\A t \in Tasks :
       ( /\ task[t].op = "force_refresh"
         /\ At(t, "rf_td")
         /\ IsSome(Got(t))
         /\ ~is_empty(Unwrap(Got(t)).refresh_token)
         /\ ~is_refresh_token_expired(Unwrap(Got(t)))
         /\ task'[t] # task[t] )
       => /\ netCalls' = netCalls + 1
          /\ task'[t].pc = "rf_resp"]_vars

\* --------------------------------------------------- `argo update install`

MaxLaunches == 2
MaxCrashes == 1

\* What the command never touches: the credentials and the UI loop.
loopVars == <<credVars, app, chan, loopPc, uilog>>

\* GhrustError::Custom (error.rs:151-153); a message is the sequence of its
\* parts, the fixed text and the errors formatted into it.
Custom(msg) == [variant |-> "Custom", msg |-> msg]

\* The process is not running.
CliStopped == cli.pc \in {"off", "exit", "crashed"}

\* `argo update install [--force]` starts: handle_install up to its first
\* call of apply_pending_update (cli/update.rs:60-66).
Launch ==
  /\ CliStopped
  /\ cli.launches < MaxLaunches
  /\ units = <<>>
  /\ \E force \in BOOLEAN :
       cli' = [IdleCli EXCEPT !.pc = "ap_load", !.call = 1, !.force = force,
                              !.launches = cli.launches + 1,
                              !.crashes = cli.crashes, !.log = cli.log,
                              !.pre = install.binary]
  /\ UNCHANGED <<loopVars, units, checkpoint, staging, install>>

\* apply_pending_update returns r to handle_install (cli/update.rs:66-76,
\* 126-138): after the first call only Ok(true) ends the command and an error
\* is printed as a warning; after the second call the command ends.
ApReturn(r) ==
  LET ends == cli.call = 2 \/ r = Ok(TRUE) IN
  [cli EXCEPT !.res = r, !.log = Append(@, r),
              !.pc = IF ends THEN "exit" ELSE "hi_load",
              !.ret = IF ends THEN Ok(<<>>) ELSE @]

\* apply_pending_update, the checks before the digest
\* (update_checker.rs:341-363).
ApLoad ==
  /\ cli.pc = "ap_load"
  /\ LET state == checkpoint IN
       IF ~(IsSome(state.pending_update_path) /\ IsSome(state.pending_sha256))
         THEN cli' = ApReturn(Ok(FALSE)) /\ UNCHANGED checkpoint
       ELSE IF state.partial_download
         THEN cli' = ApReturn(Ok(FALSE)) /\ UNCHANGED checkpoint
       ELSE IF staging.final = "none"
         THEN /\ checkpoint' = clear_pending(state)
              /\ cli' = ApReturn(Ok(FALSE))
       ELSE /\ cli' = [cli EXCEPT !.pc = "ap_sha", !.st = state]
            /\ UNCHANGED checkpoint
  /\ UNCHANGED <<loopVars, units, staging, install>>

\* apply_pending_update, the digest (update_checker.rs:365-376): on a
\* mismatch the file is removed and the checkpoint cleared and saved.
ApSha ==
  /\ cli.pc = "ap_sha"
  /\ IF calculate_sha256(staging.final) # Unwrap(cli.st.pending_sha256)
       THEN /\ staging' = [staging EXCEPT !.final = "none"]
            /\ checkpoint' = clear_pending(cli.st)
            /\ cli' = ApReturn(Err(Custom(<<"SHA256 mismatch">>)))
       ELSE /\ cli' = [cli EXCEPT !.pc = "ap_backup"]
            /\ UNCHANGED <<staging, checkpoint>>
  /\ UNCHANGED <<loopVars, units, install>>

\* apply_pending_update, the backup (update_checker.rs:378-383): the running
\* binary is copied beside itself, or the copy fails.
ApBackup ==
  /\ cli.pc = "ap_backup"
  /\ \/ /\ install' = [install EXCEPT
                          !.backup = Some(<<install.binary, install.tested>>)]
        /\ cli' = [cli EXCEPT !.pc = "ap_rename"]
     \/ /\ cli' = ApReturn(Err([variant |-> "Io", msg |-> <<"copy">>]))
        /\ UNCHANGED install
  /\ UNCHANGED <<loopVars, units, checkpoint, staging>>

\* apply_pending_update, the replacement (update_checker.rs:386, 431-439):
\* the staged file is moved over the running binary; when the move fails the
\* backup is moved back, whatever that move's outcome.
ApRename ==
  /\ cli.pc = "ap_rename"
  /\ \/ /\ install' = [install EXCEPT !.binary = "new", !.tested = FALSE]
        /\ staging' = [staging EXCEPT !.final = "none"]
        /\ cli' = [cli EXCEPT !.pc = "ap_verify"]
     \/ /\ \/ install' = [binary |-> Unwrap(install.backup)[1],
                          tested |-> Unwrap(install.backup)[2],
                          backup |-> None]
           \/ UNCHANGED install
        /\ cli' = ApReturn(Err(Custom(<<"Failed to apply update">>)))
        /\ UNCHANGED staging
  /\ UNCHANGED <<loopVars, units, checkpoint>>

\* apply_pending_update, the self-test in the install location
\* (update_checker.rs:389-403): on success the backup is removed and the
\* checkpoint cleared and saved; it fails with one of the errors of
\* verify_binary (80-112).
ApVerify ==
  /\ cli.pc = "ap_verify"
  /\ \/ /\ install' = [install EXCEPT !.tested = TRUE, !.backup = None]
        /\ checkpoint' = clear_pending(cli.st)
        /\ cli' = ApReturn(Ok(TRUE))
     \/ /\ \E verify_err \in {Custom(<<"Failed to execute binary">>),
                             Custom(<<"Binary verification failed">>),
                             Custom(<<"Binary produced unexpected output">>)} :
             cli' = [cli EXCEPT !.pc = "ap_restore", !.verr = Some(verify_err)]
        /\ UNCHANGED <<install, checkpoint>>
  /\ UNCHANGED <<loopVars, units, staging>>

\* A rollback that moves the staged binary's backup aside and leaves the
\* new binary installed.
ApRestoreKeepsNew ==
  /\ cli.pc = "ap_restore"
  /\ install' = [install EXCEPT !.backup = None]
  /\ checkpoint' = clear_pending(cli.st)
  /\ cli' = ApReturn(Err(Custom(<<"rolled back">> \o Unwrap(cli.verr).msg)))
  /\ UNCHANGED <<loopVars, units, staging>>

\* apply_pending_update, the rollback (update_checker.rs:405-428): the backup
\* is moved back and the checkpoint cleared and saved, or the move fails.
ApRestore ==
  /\ cli.pc = "ap_restore"
  /\ \/ /\ install' = [binary |-> Unwrap(install.backup)[1],
                       tested |-> Unwrap(install.backup)[2],
                       backup |-> None]
        /\ checkpoint' = clear_pending(cli.st)
        /\ cli' = ApReturn(Err(Custom(<<"rolled back">> \o Unwrap(cli.verr).msg)))
     \/ /\ cli' = [ApReturn(Err(Custom(<<"CRITICAL">> \o Unwrap(cli.verr).msg)))
                     EXCEPT !.critical = TRUE]
        /\ UNCHANGED <<install, checkpoint>>
  /\ UNCHANGED <<loopVars, units, staging>>

\* handle_install, the throttle (cli/update.rs:81-88).
HiLoad ==
  /\ cli.pc = "hi_load"
  /\ LET state == checkpoint IN
       IF ~cli.force /\ ~should_check(state) /\ has_pending_update(state)
         THEN cli' = [cli EXCEPT !.pc = "exit", !.ret = Ok(<<>>)]
         ELSE cli' = [cli EXCEPT !.pc = "hi_check", !.hst = state]
  /\ UNCHANGED <<loopVars, units, checkpoint, staging, install>>

\* handle_install, the check (cli/update.rs:90-118, 144-149): an answer marks
\* and saves the copy loaded before the check; a newer release starts
\* download_update.
HiCheck ==
  /\ cli.pc = "hi_check"
  /\ \/ /\ checkpoint' = mark_checked(cli.hst)
        /\ cli' = [cli EXCEPT !.pc = "exit", !.ret = Ok(<<>>)]
        /\ UNCHANGED units
     \/ /\ checkpoint' = mark_checked(cli.hst)
        /\ units' = <<Unit("update_download", 0, None)>>
        /\ cli' = [cli EXCEPT !.pc = "hi_download"]
     \/ /\ cli' = [cli EXCEPT !.pc = "exit", !.ret = Ok(<<>>)]
        /\ UNCHANGED <<units, checkpoint>>
  /\ UNCHANGED <<loopVars, staging, install>>

\* One chunk of the stream with the command's progress callback, which
\* prints (update_checker.rs:251-261, cli/update.rs:113-116).
HiChunk ==
  /\ cli.pc = "hi_download"
  /\ units[1].pc = "stream"
  /\ \/ /\ units[1].n < MaxChunks
        /\ units' = [units EXCEPT ![1].n = @ + 1]
     \/ units' = [units EXCEPT ![1].pc = "failed"]
  /\ UNCHANGED <<loopVars, checkpoint, staging, updVars>>

\* handle_install, after download_update (cli/update.rs:118-142): the second
\* call of apply_pending_update, or the failure is printed.
HiDownloaded ==
  /\ cli.pc = "hi_download"
  /\ \/ /\ units[1].pc = "complete"
        /\ cli' = [cli EXCEPT !.pc = "ap_load", !.call = 2]
     \/ /\ units[1].pc = "failed"
        /\ cli' = [cli EXCEPT !.pc = "exit", !.ret = Ok(<<>>)]
  /\ units' = <<>>
  /\ UNCHANGED <<loopVars, checkpoint, staging, install>>

\* The steps of apply_pending_update and of handle_install.
StepInstall ==
  \/ ApLoad \/ ApSha \/ ApBackup \/ ApRename \/ ApVerify \/ ApRestore
  \/ HiLoad \/ HiCheck \/ HiChunk \/ HiDownloaded

\* The steps of download_update that do not depend on the caller.
StepDownload ==
  \/ UnitDownloadMark(1) \/ UnitDownloadRequest(1) \/ UnitDownloadRename(1)
  \/ UnitDownloadVerify(1) \/ UnitDownloadSave(1)

\* The command alone, from a first launch or with a download the TUI left.
NextInstall == Launch \/ StepInstall \/ StepDownload

SpecInstall == InitUi /\ [][NextInstall]_vars

\* The process is killed (power loss, SIGKILL) at any step of the command;
\* what it wrote to disk stays.
Crash ==
  /\ ~CliStopped
  /\ cli.crashes < MaxCrashes
  /\ cli' = [cli EXCEPT !.pc = "crashed", !.crashes = @ + 1]
  /\ units' = <<>>
  /\ UNCHANGED <<loopVars, checkpoint, staging, install>>

\* Between launches the staged file is changed or removed by something other
\* than argo: the case apply_pending_update tests for
\* (update_checker.rs:356-368).
Damage ==
  /\ CliStopped
  /\ staging.final = "verified"
  /\ \E file \in {"corrupt", "none"} :
       staging' = [staging EXCEPT !.final = file]
  /\ UNCHANGED <<loopVars, units, checkpoint, updVars>>

\* The command with crashes, relaunches and damaged staging files.
NextRecover == Launch \/ StepInstall \/ StepDownload \/ Crash \/ Damage

SpecRecover == InitUi /\ [][NextRecover]_vars

\* ------------------------------------------------- the update throttle

MaxClock == 9000

\* Time passes between two uses of the checkpoint, by half an hour or a
\* second less, so that the clock reads by should_check (update.rs:104) fall
\* on both sides of the hour.
Elapse ==
  /\ \E d \in {CHECK_INTERVAL_SECS \div 2, CHECK_INTERVAL_SECS \div 2 - 1} :
       /\ now + d <= MaxClock
       /\ now' = now + d
  /\ UNCHANGED <<env, genv, keyring, migrated, dataCache, tokenCache,
                 geminiCache, lockHolder, lockQueue, task, netCalls, faults,
                 hist, tuiVars, updVars>>

\* `argo update check` (cli/update.rs:23-57): an answer of the release
\* server marks the checkpoint and saves it, a failure leaves it.
HandleCheck ==
  /\ \/ checkpoint' = mark_checked(checkpoint)
     \/ UNCHANGED checkpoint
  /\ UNCHANGED <<loopVars, units, staging, updVars>>

\* The checkpoint before any check: no file, or one whose last_check is not
\* a timestamp.
InitThrottle ==
  /\ env = None
  /\ genv = None
  /\ keyring = None
  /\ InitCredentials
  /\ \E last \in {None, Some(<<"yesterday">>)} :
       InitTui(TRUE, [DefaultCheckpoint EXCEPT !.last_check = last])
  /\ InitInstall("none")

NextThrottle == Elapse \/ HandleCheck

SpecThrottle == InitThrottle /\ [][NextThrottle]_vars

\* --------------------------------------------- claims about the self-update

\* The file at the pending path passed the self-test and the recorded digest
\* is the digest of that file.
PendingFileVerified ==
  /\ staging.final = "verified"
  /\ checkpoint.pending_sha256 = Some(calculate_sha256(staging.final))

\* C21: whenever no update function is running, the persisted checkpoint
\* says has_pending_update only if the file at the pending path passed the
\* self-test and the recorded digest is that file's, and the TUI's
\* update_state is Ready only in that case.
C21_ReadyOnlyIfVerified ==
  (CliStopped /\ units = <<>>)
    => /\ has_pending_update(checkpoint) => PendingFileVerified
       /\ app.update_state = "Ready" => PendingFileVerified

\* The outcome of apply_pending_update on a digest mismatch.
Mismatch == Err(Custom(<<"SHA256 mismatch">>))

\* A checkpoint with no pending update recorded.
Cleared(cp) ==
  /\ ~IsSome(cp.pending_update_path)
  /\ ~IsSome(cp.pending_version)
  /\ ~IsSome(cp.pending_sha256)
  /\ ~cp.partial_download

RolledBack ==
  { Err(Custom(<<"rolled back", reason>>)) :
      reason \in {"Failed to execute binary", "Binary verification failed",
                  "Binary produced unexpected output"} }

IsCritical(r) == r.kind = "Err" /\ r.val.msg[1] = "CRITICAL"

\* C24: once moving the backup back has failed in a launch, the outcome of
\* that apply_pending_update is an error of a variant no other failure of
\* the update has, it is neither Ok(true) nor the rollback error, and
\* handle_install neither goes on to check, download or apply again nor
\* ends with Ok.
C24_RestoreFailureIsCritical ==
  cli.critical
    => /\ IsCritical(cli.log[Len(cli.log)])
       /\ \A i \in 1..Len(cli.log) :
            (cli.log[i].kind = "Err" /\ ~IsCritical(cli.log[i]))
              => cli.log[i].val.variant # cli.log[Len(cli.log)].val.variant
       /\ cli.pc \in {"exit", "crashed"}
       /\ cli.ret.kind # "Ok"

\* C25: when apply_pending_update returns Ok(false) for a checkpoint that
\* has its partial-download flag set or names a file that does not exist,
\* the persisted checkpoint is left with no pending path, version or digest
\* and with the flag false.
C25_StaleCheckpointDiscarded ==
  [][ ( /\ cli.pc = "ap_load"
        /\ \/ checkpoint.partial_download
           \/ /\ IsSome(checkpoint.pending_update_path)
              /\ staging.final = "none"
        /\ cli' # cli /\ cli'.pc # "crashed" )
      => /\ cli'.res = Ok(FALSE)
         /\ Cleared(checkpoint') ]_vars

\* C26: the file apply_pending_update is about to move over the binary is a
\* verified download; and once a launch that followed a crash has ended, the
\* installed binary is the original or one that passed the self-test in its
\* place, and a cleared checkpoint comes with no backup and no staging file
\* left behind.
C26_SurvivesCrash ==
  /\ cli.pc = "ap_rename" => staging.final = "verified"
  /\ (cli.pc = "exit" /\ cli.crashes > 0)
       => /\ install.binary = "old" \/ install.tested
          /\ Cleared(checkpoint)
               => /\ install.backup = None
                  /\ staging = [partial |-> FALSE, final |-> "none"]

\* C27: the step of download_update in which the self-test of the downloaded
\* file fails leaves no file at the final path and a cleared persisted
\* checkpoint.
C27_FailedSelfTestClears ==
  [][ \A i \in 1..Len(units) :
        ( /\ units[i].kind = "update_download"
          /\ units[i].pc = "verify"
          /\ Len(units') = Len(units)
          /\ units'[i].pc = "failed" )
        => /\ staging'.final = "none"
           /\ Cleared(checkpoint') ]_vars

\* C28: between the load of a download_update and its final save nobody else
\* writes the checkpoint, and the record of a completed, verified download
\* stays in the checkpoint while the file is in the staging directory.
C28_SingleWriter ==
  /\ \A i \in 1..Len(units) :
       ( /\ units[i].kind = "update_download"
         /\ units[i].pc \in {"request", "stream", "verify", "save"} )
       => checkpoint = units[i].st
  /\ ( /\ staging.final = "verified"
       /\ \A i \in 1..Len(units) : units[i].pc # "save" )
       => has_pending_update(checkpoint)

\* C29: should_check is true when the checkpoint has no last-check time or
\* one that does not parse; with a time written by mark_checked it is false
\* while less than an hour has passed since and true from the full hour on.
C29_ThrottledToOncePerHour ==
  LET last == checkpoint.last_check IN
  IF ~IsSome(last) \/ Unwrap(last) = <<"yesterday">>
    THEN should_check(checkpoint)
    ELSE /\ Unwrap(last)[2] <= now
         /\ should_check(checkpoint)
              <=> now >= Unwrap(last)[2] + CHECK_INTERVAL_SECS

\* mark_checked ran and exactly an hour has passed.
C29_Witness ==
  /\ IsSome(checkpoint.last_check)
  /\ parse_ok(Unwrap(checkpoint.last_check))
  /\ now = parse_from_rfc3339(Unwrap(checkpoint.last_check))
             + CHECK_INTERVAL_SECS
  /\ should_check(checkpoint)

\* ----------------------------------------------- further claims on the TUI

\* C31: a key event that calls quit while update_state is Downloading leaves
\* the persisted checkpoint with partial_download = true.
C31_QuitMarksPartial ==
  [][ ( /\ loopPc = "event"
        /\ app.update_state = "Downloading"
        /\ app.running /\ ~app'.running )
      => checkpoint'.partial_download ]_vars

\* C32: a Tick after the first one of the session neither reads the
\* checkpoint nor dispatches an update check.
C32_UpdateCheckOnFirstTickOnly ==
  [][ ( /\ loopPc = "event"
        /\ app.tick_counter >= 1
        /\ app'.tick_counter = app.tick_counter + 1 )
      => LET e == handle_tick(Effect(app, checkpoint)) IN
           /\ "checkpoint" \notin e.io
           /\ \A j \in 1..Len(e.spawn) : e.spawn[j].kind # "update_check" ]_vars

\* C33: once a TagCreated, TagDeleted or TagPushed message is applied, a tags
\* fetch is under way or its TagsLoaded / TagsError outcome is on the bus.
C33_TagChangeRefetches ==
  [][ ( /\ loopPc = "drain"
        /\ chan # <<>>
        /\ Head(chan).type \in {"TagCreated", "TagDeleted", "TagPushed"}
        /\ uilog'.applied = uilog.applied + 1 )
      => \/ \E j \in 1..Len(units') : units'[j].kind = "tags"
         \/ \E j \in 1..Len(chan') :
              chan'[j].type \in {"TagsLoaded", "TagsError"} ]_vars

\* A Tick step that dispatches the silent refresh of the workflow runs.
AutoPollStep ==
  /\ loopPc = "event"
  /\ app'.tick_counter # app.tick_counter
  /\ Len(units') = Len(units) + 1
  /\ units'[Len(units')].kind = "workflow_runs"

\* C34: the auto-poll dispatches only on the workflow-runs screen, with no
\* fetch of the runs loading or under way and with an active run in the list,
\* and never sooner than POLL_INTERVAL_TICKS ticks after the screen was
\* entered, refreshed by hand or polled, whether or not the counter wrapped.
C34_AutoPollGuardedAndSpaced ==
  [][ AutoPollStep
      => /\ units'[Len(units')].n = 1
         /\ app.current_screen = Screen("WorkflowRuns")
         /\ ~app.workflow_runs_loading
         /\ has_active_workflow_runs(app)
         /\ \A j \in 1..Len(units) : units[j].kind # "workflow_runs"
         /\ uilog.since_poll + 1 >= POLL_INTERVAL_TICKS ]_vars

\* An auto-poll was dispatched after the tick counter wrapped round.
C34_Witness ==
  /\ \E j \in 1..Len(units) : units[j].kind = "workflow_runs" /\ units[j].n = 1
  /\ uilog.since_poll = 0
  /\ app.workflow_runs_last_poll_tick < POLL_INTERVAL_TICKS

\* C35: a key step that enters the workflow-runs screen from the Dashboard
\* leaves pr_workflow_branch None and dispatches no filtered fetch.
C35_DashboardEntryUnfiltered ==
  [][ ( /\ loopPc = "event"
        /\ app.current_screen = Dashboard
        /\ app'.current_screen = Screen("WorkflowRuns") )
      => /\ app'.pr_workflow_branch = None
         /\ \A j \in (Len(units) + 1)..Len(units') :
              units'[j].branch = None ]_vars

\* C36: off the Dashboard the navigation stack is never empty.
C36_StackNonEmptyOffDashboard ==
  app.current_screen # Dashboard => app.navigation_stack # <<>>

\* Work of one of the kinds is under way, or one of its outcome messages is
\* on the bus.
Outstanding(kinds, types) ==
  \/ \E j \in 1..Len(units) : units[j].kind \in kinds
  \/ \E j \in 1..Len(chan) : chan[j].type \in types

\* C37: a loading flag is set only while the work that set it is under way or
\* its outcome is still to be applied: once the outcome has been applied the
\* flag is false again.
C37_LoadingFlagsReset ==
  /\ app.tags_loading
       => Outstanding({"tags", "tag_create"},
                      {"TagsLoaded", "TagsError", "TagCreated",
                       "TagCreateError"})
  /\ app.pr_list_loading
       => Outstanding({"pr_list"}, {"PrListLoaded", "PrListError"})
  /\ app.pr_detail_loading
       => Outstanding({"pr_detail"}, {"PrLoaded", "PrError"})
  /\ app.pr_comments_loading
       => Outstanding({"pr_comments"}, {"PrCommentsLoaded", "PrCommentsError"})
  /\ app.workflow_runs_loading
       => Outstanding({"workflow_runs"},
                      {"WorkflowRunsLoaded", "WorkflowRunsError"})
  /\ app.pr_create_submitting
       => Outstanding({"pr_create"}, {"PrCreated", "PrCreateError"})
  /\ app.commit_push_loading
       => Outstanding({"push"}, {"PushCompleted", "PushError"})
  /\ app.merge_in_progress
       => Outstanding({"merge"}, {"PrMerged", "PrMergeError"})

\* C40: the merge dialog is open only on a PR detail screen.
C40_MergeDialogOnlyOnPrDetail ==
  app.merge_dialog_open => app.current_screen.s = "PrDetail"

\* ------------------------------------- further claims on the credential store

\* What the unified entry holds, an absent entry being the default one.
StoredCredentials(k) == IF k = None THEN DefaultCredentials ELSE Unwrap(k)

\* C38: no write to one credential of the unified entry undoes a write to
\* the other: the save of store_gemini_key or delete_gemini_key leaves the
\* stored github_token_data as it is, and the save of store_github_token_data
\* or delete_github_token_data leaves the stored gemini_api_key as it is.
C38_WritesToOtherCredentialKept ==
  [][\A t \in Tasks :
       ( /\ At(t, "uu_save")
         /\ task'[t] # task[t]
         /\ keyring' # keyring )
       => IF Head(task[t].stk) \in {"sg_saved", "dg_saved"}
            THEN StoredCredentials(keyring').github_token_data
                   = StoredCredentials(keyring).github_token_data
            ELSE StoredCredentials(keyring').gemini_api_key
                   = StoredCredentials(keyring).gemini_api_key]_vars

\* The frames at which a write operation updates its caches.
WriteFrames == {"st_saved", "dl_saved", "sg_saved", "dg_saved"}
WriteOps ==
  {"store_github_token_data", "delete_github_token_data", "store_gemini_key",
   "delete_gemini_key"}

\* C39: a step of update_unified_credentials changes no cache; it goes on to
\* the cache updates of its caller only when the save has put the updated
\* entry into the store, and otherwise returns the error.
C39_FailedWriteKeepsCaches ==
  [][\A t \in Tasks :
       ( /\ task[t].pc \in {"uu_load", "uu_save"}
         /\ task'[t] # task[t] )
       => /\ dataCache' = dataCache
          /\ tokenCache' = tokenCache
          /\ geminiCache' = geminiCache
          /\ task'[t].pc \in WriteFrames
               => /\ At(t, "uu_save")
                  /\ keyring' = Some(Updater(Head(task[t].stk),
                                             Unwrap(task[t].creds),
                                             task[t].arg))
          /\ task'[t].pc \notin WriteFrames \cup {"uu_save"}
               => /\ keyring' = keyring
                  /\ \/ task'[t].res.kind = "Err"
                     \/ task'[t].ret.kind = "Err" ]_vars

\* A write operation has returned an error and no cache holds an entry.
C39_Witness ==
  \E t \in Tasks :
    /\ task[t].op \in WriteOps
    /\ At(t, "idle")
    /\ task[t].res.kind = "Err"
    /\ faults
    /\ dataCache = None /\ tokenCache = None /\ geminiCache = None

====
